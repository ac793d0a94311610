------------------------- MODULE RunnersAgreeProofs -------------------------
(***************************************************************************)
(* The two runners without a cache, for every number of requests and GPUs, *)
(* every cluster and every trace.                                          *)
(*                                                                         *)
(* EventDrivenRunner: no request is lost or duplicated, results report     *)
(* what happened, nobody is overtaken in a queue, and, in the first run,   *)
(* nobody is forgotten there.  The runner implements RequestLifecycle.     *)
(*                                                                         *)
(* NoReuseRunner, beside it, for every batch and number of workers: the    *)
(* baseline never has more work under way than workers, it prefills in the *)
(* order of arrival, and no prefill worker idles while a request waits.    *)
(*                                                                         *)
(* The two compared: with one worker for each stage and no ties they give  *)
(* every request of the first run the same times.  A stage with one worker *)
(* is a line, and both runners keep to it, first come, first served.       *)
(***************************************************************************)
EXTENDS RunnersAgree, ServingProofs

-----------------------------------------------------------------------------
(* EventDrivenRunner *)

\* What holds between two handlers.  A second run begins with the busy times of
\* the first, so that what is said of GPUs is said of the first run.
Inv ==
    /\ ServingInv({None}, {})
    /\ runs \in 0 .. MaxRuns
    /\ role \in Clusters
    /\ Running => trace \in Traces
    /\ runs = 0 => ~Running /\ busy_until = [g \in Gpu |-> 0]
    /\ runs <= 1 => WorkInv

\* Where the request of an event goes.
GoesOn(e, q) ==
    LET r == e.kind.request_id
    IN  \/ e.kind.tag = "RequestArrival" /\ IsIn(q, "Prefill", r)
        \/ e.kind.tag = "PrefillDone" /\ IsIn(q, "Decode", r)
        \/ e.kind.tag = "DecodeDone" /\ r \in DOMAIN results'

\* The handler of e returns with the pool q.
Handled(e, q) ==
    /\ Returns(e, q, {None}, {})
    /\ \E o : Tends(e, q, o)
    /\ \E stage \in Stage : InLine(q, Pool, stage, e.kind.request_id)
    /\ GoesOn(e, q)
    /\ runs' = runs

LEMMA NoFetches == {} \subseteq FetchKind /\ None \in {None}
OBVIOUS

LEMMA EveryHandlerReturns ==
    ASSUME Inv, HandleEvent
    PROVE  \E e, q : Handled(e, q)
<1> DEFINE inv == ServingInv({None}, {})
<1>1. inv /\ "Prefill" \in Stage /\ "Decode" \in Stage /\ "Prefill" # "Decode"
  BY DEF Inv, Stage
<1>2. ASSUME NEW e \in queue, OnArrival(e) PROVE \E q : Handled(e, q)
  <2> DEFINE q == StartOrQueue(Pool, ClockAt(e), "Prefill", e.kind.request_id)
  <2>1. /\ IsNext(e) /\ e.kind.tag = "RequestArrival" /\ Commit(e, q)
        /\ trace' = trace /\ results' = results /\ runs' = runs
    BY <1>2 DEF OnArrival
  <2>2. e \notin GpuEvents
    BY <2>1 DEF GpuEvents, Pending
  <2>3. Pool.busy_until = busy_until
    BY DEF Pool
  <2>4. q = StartOrQueue(Pool, ClockAt(e), "Prefill", e.kind.request_id)
    OBVIOUS
  <2> HIDE DEF q
  <2>5. Begins(Pool, {None}, e)
    BY <1>1, <2>1, NoFetches, PoolBegins
  <2>6. /\ Returns(e, q, {None}, {}) /\ Tends(e, q, Pool)
        /\ InLine(q, Pool, "Prefill", e.kind.request_id)
        /\ IsIn(q, "Prefill", e.kind.request_id)
    BY <1>1, <2>1, <2>2, <2>3, <2>4, <2>5, NoFetches, SendReturns
  <2> QED
    BY <1>1, <2>1, <2>6 DEF Handled, GoesOn
<1>3. ASSUME NEW e \in queue, OnPrefillDone(e) PROVE \E q : Handled(e, q)
  <2> DEFINE now == ClockAt(e)
             p1 == Released(Pool, e.kind.gpu, now)
             p2 == StartOrQueue(p1, now, "Decode", e.kind.request_id)
  <2>1. /\ IsNext(e) /\ e.kind.tag = "PrefillDone"
        /\ trace' = trace /\ results' = results /\ runs' = runs
    BY <1>3 DEF OnPrefillDone
  <2>2. PICK p3 \in TryAssign(p2, now, "Prefill") :
           \E p4 \in TryAssign(p3, now, "Decode") : Commit(e, p4)
    BY <1>3 DEF OnPrefillDone
  <2>3. PICK q \in TryAssign(p3, now, "Decode") : Commit(e, q)
    BY <2>2
  <2>4. e \in GpuEvents
    BY <2>1 DEF GpuEvents, Pending
  <2>5. /\ p1 = Released(Pool, e.kind.gpu, ClockAt(e))
        /\ p2 = StartOrQueue(p1, ClockAt(e), "Decode", e.kind.request_id)
        /\ p3 \in TryAssign(p2, ClockAt(e), "Prefill")
        /\ q \in TryAssign(p3, ClockAt(e), "Decode")
    OBVIOUS
  <2> HIDE DEF p1, p2, now
  <2>6. /\ Begins(p1, {None}, e)
        /\ p1.busy_until = [busy_until EXCEPT ![e.kind.gpu] = ClockAt(e)]
    BY <1>1, <2>1, <2>4, <2>5, NoFetches, ReleasedBegins
  <2>7. /\ Returns(e, q, {None}, {}) /\ Tends(e, q, p1)
        /\ InLine(q, Pool, "Decode", e.kind.request_id)
        /\ IsIn(q, "Decode", e.kind.request_id)
    BY <1>1, <2>1, <2>3, <2>4, <2>5, <2>6, NoFetches, SendAndTryReturns
  <2> QED
    BY <1>1, <2>1, <2>7 DEF Handled, GoesOn
<1>4. ASSUME NEW e \in queue, OnDecodeDone(e) PROVE \E q : Handled(e, q)
  <2>1. /\ IsNext(e) /\ e.kind.tag = "DecodeDone" /\ DecodeDone(e)
        /\ runs' = runs
    BY <1>4 DEF OnDecodeDone
  <2>2. PICK q, o : /\ Returns(e, q, {None}, {}) /\ Tends(e, q, o)
                    /\ InLine(q, Pool, "Decode", e.kind.request_id)
                    /\ e.kind.request_id \in DOMAIN results'
    BY <1>1, <2>1, NoFetches, DecodeDoneReturns
  <2> QED
    BY <1>1, <2>1, <2>2 DEF Handled, GoesOn
<1> QED
  BY <1>2, <1>3, <1>4 DEF HandleEvent

LEMMA HandledParts ==
    ASSUME Inv, NEW e, NEW q, Handled(e, q)
    PROVE  /\ ServingInv({None}, {}) /\ e \in queue /\ Running
           /\ e.kind.request_id \in Request
           /\ \A t \in Stage : ~Waits(t, e.kind.request_id)
           /\ trace' = trace /\ role' = role /\ runs' = runs
           /\ waiting' = q.waiting /\ q.waiting \in [Stage -> Seq(Request)]
<1>1. ServingInv({None}, {}) /\ Returns(e, q, {None}, {}) /\ runs' = runs
  BY DEF Inv, Handled
<1>2. e \in queue /\ trace' = trace /\ Commit(e, q)
      /\ q.waiting \in [Stage -> Seq(Request)]
  BY <1>1 DEF Returns, IsNext, Committable
<1>3. waiting' = q.waiting /\ role' = role
  BY <1>2 DEF Commit
<1> QED
  BY <1>1, <1>2, <1>3, NoFetches, EventParts

-----------------------------------------------------------------------------
(* The invariant *)

LEMMA TraceParts ==
    ASSUME NEW tr \in Traces
    PROVE  /\ tr # <<>>
           /\ \A r \in Request : /\ tr[r].arrival_ns \in Nat
                                 /\ tr[r].prompt_tokens \in Tokens
                                 /\ tr[r].output_tokens \in Nat
<1>1. tr \in [Request -> LlmRequest] /\ Request # {}
  BY RunnerAssumption
<1>2. DOMAIN tr = Request /\ DOMAIN <<>> = {}
  BY <1>1
<1>3. \A r \in Request : tr[r] \in LlmRequest
  BY <1>1
<1> QED
  BY <1>1, <1>2, <1>3 DEF LlmRequest

LEMMA Begun == Init => Inv
<1> SUFFICES ASSUME Init PROVE Inv
  OBVIOUS
<1>1. PICK roles \in Clusters : NewServing(roles)
  BY DEF Init
<1>2. ServingInv({None}, {})
  BY <1>1, NewServingGood
<1>3. /\ trace = <<>> /\ role = roles /\ busy_until = [g \in Gpu |-> 0]
      /\ waiting = EmptyQueues /\ now_ns = 0 /\ runs = 0
  BY <1>1 DEF NewServing, NewSimulator, Init
<1>4. WorkInv
  BY <1>3 DEF WorkInv, WorkConserving, BusyAttended, EmptyQueues
<1>5. ~Running /\ runs \in 0 .. MaxRuns
  BY <1>3, RunnerAssumption DEF Running
<1> QED
  BY <1>1, <1>2, <1>3, <1>4, <1>5 DEF Inv

LEMMA Kept == Inv /\ [Next]_vars => Inv'
<1> SUFFICES ASSUME Inv, [Next]_vars PROVE Inv'
  OBVIOUS
<1>1. ASSUME NEW tr \in Traces, StartRun(tr) PROVE Inv'
  <2>1. StartServing(tr) /\ runs < MaxRuns /\ runs' = runs + 1
    BY <1>1 DEF StartRun
  <2>2. ServingInv({None}, {}) /\ runs \in 0 .. MaxRuns
    BY DEF Inv
  <2>3. ServingInv({None}, {})'
    BY <2>1, <2>2, NoFetches, TraceParts, StartServingGood
  <2>4. /\ trace' = tr /\ role' = role /\ now_ns' = 0 /\ busy_until' = busy_until
        /\ waiting' = EmptyQueues
    BY <2>1 DEF StartServing
  <2>5. runs' \in 0 .. MaxRuns /\ runs' # 0 /\ (runs' <= 1 => runs = 0)
    BY <2>1, <2>2, RunnerAssumption
  <2>6. runs' <= 1 => WorkInv'
    BY <2>4, <2>5 DEF Inv, WorkInv, WorkConserving, BusyAttended, EmptyQueues
  <2> QED
    BY <2>3, <2>4, <2>5, <2>6 DEF Inv
<1>2. ASSUME HandleEvent PROVE Inv'
  <2>1. PICK e, q : Handled(e, q)
    BY <1>2, EveryHandlerReturns
  <2>2. /\ ServingInv({None}, {}) /\ Running
        /\ trace' = trace /\ role' = role /\ runs' = runs
    BY <2>1, HandledParts
  <2>3. Returns(e, q, {None}, {})
    BY <2>1 DEF Handled
  <2>4. PICK o : Tends(e, q, o)
    BY <2>1 DEF Handled
  <2>5. ServingInv({None}, {})'
    BY <2>2, <2>3, NoFetches, CommitKeeps
  <2>6. runs <= 1 => WorkInv'
    BY <2>2, <2>3, <2>4, NoFetches, CommitTends DEF Inv
  <2>7. Running'
    BY <2>2 DEF Running
  <2> QED
    BY <2>2, <2>5, <2>6, <2>7 DEF Inv
<1>3. CASE UNCHANGED vars
  BY <1>3 DEF Inv, ServingInv, Types, Numbered, InOnePlace, TimelineHonest,
              Accounted, NotStarted, TraceOK, Running, Pending, Waits, WorkInv,
              WorkConserving, BusyAttended, GpuEvents, Serves,
              vars, simVars, clusterVars
<1> QED
  BY <1>1, <1>2, <1>3 DEF Next

\* The invariant holds in every reachable state.
LEMMA Always == Spec => []Inv
BY Begun, Kept, PTL DEF Spec

\* Every variable has its type and no two pending events the same sequence
\* number, whatever the cluster and the trace, and however often run is called.
THEOREM TypeCorrect == Spec => []TypeOK
<1>1. Inv => TypeOK
  <2> SUFFICES ASSUME Inv PROVE TypeOK
    OBVIOUS
  <2>1. ServingInv({None}, {})
    BY DEF Inv
  <2>2. Types({None}, {}) /\ Numbered
    BY <2>1 DEF ServingInv
  <2>3. \A e \in queue : /\ e.time_ns \in Nat /\ e.seq \in 0 .. (next_seq - 1)
                         /\ e.kind \in Kind
    <3> SUFFICES ASSUME NEW e \in queue
                 PROVE  /\ e.time_ns \in Nat /\ e.seq \in 0 .. (next_seq - 1)
                        /\ e.kind \in Kind
      OBVIOUS
    <3>1. /\ e.time_ns \in Nat /\ e.seq \in Nat /\ e.seq < next_seq
          /\ e.kind \in ArrivalKind \cup {} \cup GpuKind
      BY <2>1, NoFetches, EventParts
    <3>2. e.kind \in Kind
      BY <3>1 DEF Kind, ArrivalKind, GpuKind
    <3> QED
      BY <2>2, <3>1, <3>2 DEF Types
  <2>4. FlightOf({None}) = InFlight
    BY DEF FlightOf, InFlight, When, Stamp
  <2>5. /\ DOMAIN in_flight \subseteq Request
        /\ \A r \in DOMAIN in_flight : in_flight[r] \in InFlight
    BY <2>2, <2>4 DEF Types, Flights
  <2> QED
    BY <2>2, <2>3, <2>5 DEF TypeOK, Inv, Types, Numbered
<1> QED
  BY <1>1, Always, PTL

\* No request is lost or duplicated between the event queue, the waiting queues
\* and the results, however the handlers' events interleave.
THEOREM NobodyIsLost == Spec => []OneWhere
<1>1. Inv => OneWhere
  BY NoFetches, PlacedOnce DEF Inv
<1> QED
  BY <1>1, Always, PTL

\* No event is due in the past, and the times a result reports are the times at
\* which the stages of its request began and ended.
THEOREM TimelinesAreHonest == Spec => []TimelineHonest
<1>1. Inv => TimelineHonest
  BY DEF Inv, ServingInv
<1> QED
  BY <1>1, Always, PTL

\* In the first run of a runner no request waits for a wake-up that nobody will
\* give: a GPU that could serve it has an event to come.  (In a second run the
\* GPUs may be busy with what the first left behind.)
THEOREM QueuesAreAttended == Spec => [](runs <= 1 => WorkConserving)
<1>1. Inv => (runs <= 1 => WorkConserving)
  BY DEF Inv, WorkInv
<1> QED
  BY <1>1, Always, PTL

-----------------------------------------------------------------------------
(* Nobody is overtaken *)

\* Two requests that wait in one queue leave it in the order they entered it, or
\* together, in every run: arrivals, both try_assign loops and their order in
\* the handlers included.
THEOREM NobodyJumpsTheQueue == Spec => QueuesAreFifo
<1>1. Inv /\ [Next]_vars
        => [runs' = runs => \A stage \in Stage : ~Overtakes(stage)]_vars
  <2> SUFFICES ASSUME Inv, Next, runs' = runs, NEW t \in Stage
               PROVE  ~Overtakes(t)
    OBVIOUS
  <2>1. HandleEvent
    <3>1. \A tr \in Traces : ~StartRun(tr)
      BY DEF StartRun, Inv
    <3> QED
      BY <3>1 DEF Next
  <2>2. PICK e, q : Handled(e, q)
    BY <2>1, EveryHandlerReturns
  <2>3. /\ ServingInv({None}, {}) /\ e.kind.request_id \in Request
        /\ \A s \in Stage : ~Waits(s, e.kind.request_id)
        /\ waiting' = q.waiting /\ q.waiting \in [Stage -> Seq(Request)]
    BY <2>2, HandledParts
  <2>4. PICK stage \in Stage : InLine(q, Pool, stage, e.kind.request_id)
    BY <2>2 DEF Handled
  <2> QED
    BY <2>3, <2>4, NobodyOvertaken
<1> QED
  BY <1>1, Always, PTL DEF Spec, QueuesAreFifo

-----------------------------------------------------------------------------
(* The runner implements RequestLifecycle *)

\* What the invariant says of the phases of RequestLifecycle.
PhasesSeen == PhasesKnown /\ (runs <= 1 => SomebodyServes)

LEMMA Seen == Inv => PhasesSeen
BY NoFetches, PhasesAreKnown, SomebodyDoesServe DEF Inv, WorkInv, PhasesSeen

LEMMA SeenNext == Inv' => PhasesSeen'
<1>1. Inv => PhasesSeen
  BY Seen
<1> QED
  BY <1>1, PTL

\* A runner that has been built has served nobody yet.
LEMMA BeginsNew == Init => Lifecycle!Init
<1> SUFFICES ASSUME Init PROVE Lifecycle!Init
  OBVIOUS
<1>1. trace = <<>>
  BY DEF Init, NewServing
<1>2. \A r \in Request : PhaseOf(r) = "New"
  BY <1>1 DEF PhaseOf
<1>3. Staffed \subseteq {"Prefill", "Decode"}
  BY DEF Staffed, Stage
<1> QED
  BY <1>2, <1>3 DEF Lifecycle!Init

\* run, called first, submits its batch.
LEMMA FirstRunSubmits ==
    ASSUME Inv, PhasesSeen', NEW tr \in Traces, StartRun(tr), runs' <= 1
    PROVE  Lifecycle!Submit
<1>1. StartServing(tr) /\ runs' = runs + 1 /\ runs \in 0 .. MaxRuns
  BY DEF StartRun, Inv
<1>2. runs = 0
  BY <1>1, RunnerAssumption
<1>3. trace = <<>>
  BY <1>2 DEF Inv, Running
<1>4. \A r \in Request : PhaseOf(r) = "New"
  BY <1>3 DEF PhaseOf
<1>5. trace' = tr /\ queue' = Arrivals(tr) /\ role' = role
  BY <1>1 DEF StartServing
<1>6. Running'
  BY <1>5, TraceParts DEF Running
<1>7. ASSUME NEW r \in Request PROVE PhaseOf(r)' = "Arriving"
  <2> DEFINE e == [time_ns |-> tr[r].arrival_ns,
                   seq     |-> Cardinality({s \in Request : ArrivesBefore(tr, s, r)}),
                   kind    |-> [tag |-> "RequestArrival", request_id |-> r]]
  <2>1. e \in Arrivals(tr) /\ e.kind.request_id = r /\ e.kind.tag = "RequestArrival"
    BY DEF Arrivals
  <2> HIDE DEF e
  <2>2. PhaseOf(r)' = PhaseOfTag[e.kind.tag]
    BY <1>5, <1>6, <2>1 DEF PhasesSeen, PhasesKnown
  <2> QED
    BY <2>1, <2>2, PhasesOfEvents
<1>8. Staffed' = Staffed
  BY <1>5 DEF Staffed, Serves
<1> QED
  BY <1>4, <1>7, <1>8 DEF Lifecycle!Submit

\* Every phase is one of RequestLifecycle.
PhasesTyped == [r \in Request |-> PhaseOf(r)] \in [Request -> Lifecycle!Phase]

LEMMA PhasesAreTyped == Inv /\ PhasesSeen /\ Running => PhasesTyped
<1> SUFFICES ASSUME Inv, PhasesSeen, Running, NEW r \in Request
             PROVE  PhaseOf(r) \in Lifecycle!Phase
  BY DEF PhasesTyped
<1>1. CASE r \in DOMAIN results
  BY <1>1 DEF PhasesSeen, PhasesKnown, Lifecycle!Phase
<1>2. CASE \E t \in Stage : Waits(t, r)
  <2>1. PICK t \in Stage : Waits(t, r)
    BY <1>2
  <2>2. PhaseOf(r) = WaitingPhase(t)
    BY <2>1 DEF PhasesSeen, PhasesKnown
  <2> QED
    BY <2>2 DEF WaitingPhase, Lifecycle!Phase
<1>3. CASE \E e \in queue : e.kind.request_id = r
  <2>1. PICK e \in queue : e.kind.request_id = r
    BY <1>3
  <2>2. PhaseOf(r) = PhaseOfTag[e.kind.tag]
    BY <2>1 DEF PhasesSeen, PhasesKnown
  <2>3. e.kind \in ArrivalKind \cup {} \cup GpuKind
    BY NoFetches, EventParts DEF Inv
  <2>4. e.kind.tag \in {"RequestArrival", "PrefillDone", "DecodeDone"}
    BY <2>3 DEF ArrivalKind, GpuKind
  <2> QED
    BY <2>2, <2>4 DEF PhaseOfTag, Lifecycle!Phase, Lifecycle!AtWork
<1> QED
  BY <1>1, <1>2, <1>3 DEF PhasesSeen, PhasesKnown

LEMMA PhasesTypedNext == Inv' /\ PhasesSeen' /\ Running' => PhasesTyped'
<1>1. Inv /\ PhasesSeen /\ Running => PhasesTyped
  BY PhasesAreTyped
<1> QED
  BY <1>1, PTL

\* A handler moves the request of its event on, and others at most from a queue
\* to work, in every run.
LEMMA HandlerMovesOne ==
    ASSUME Inv, PhasesSeen, PhasesSeen', NEW e, NEW q, Handled(e, q)
    PROVE  Lifecycle!MovesOn(e.kind.request_id)
<1> DEFINE r == e.kind.request_id
<1>1. ServingInv({None}, {}) /\ Returns(e, q, {None}, {}) /\ GoesOn(e, q)
      /\ r \in Request /\ e \in queue
  BY HandledParts DEF Inv, Handled
<1>2. PhasesMoved(e, q)
  BY <1>1, NoFetches, CommitMoves DEF PhasesSeen
<1>3. /\ PhaseOf(r) = PhaseOfTag[e.kind.tag]
      /\ \A t \in Stage : IsIn(q, t, r) => PhaseOf(r)' \in {WaitingPhase(t), t}
      /\ r \in DOMAIN results' => PhaseOf(r)' = "Done"
      /\ \A s \in Request \ {r} :
            \/ PhaseOf(s)' = PhaseOf(s)
            \/ \E t \in Stage : PhaseOf(s) = WaitingPhase(t) /\ PhaseOf(s)' = t
  BY <1>2 DEF PhasesMoved
<1>4. /\ PhaseOf(r) \in Lifecycle!AtWork
      /\ PhaseOf(r)' \in Lifecycle!After(PhaseOf(r))
  <2>1. CASE e.kind.tag = "RequestArrival" /\ IsIn(q, "Prefill", r)
    BY <1>3, <2>1 DEF PhaseOfTag, WaitingPhase, Stage, Lifecycle!AtWork,
                      Lifecycle!After
  <2>2. CASE e.kind.tag = "PrefillDone" /\ IsIn(q, "Decode", r)
    BY <1>3, <2>2 DEF PhaseOfTag, WaitingPhase, Stage, Lifecycle!AtWork,
                      Lifecycle!After
  <2>3. CASE e.kind.tag = "DecodeDone" /\ r \in DOMAIN results'
    BY <1>3, <2>3 DEF PhaseOfTag, Lifecycle!AtWork, Lifecycle!After
  <2> QED
    BY <1>1, <2>1, <2>2, <2>3 DEF GoesOn
<1>5. \A s \in Request \ {r} :
         PhaseOf(s)' = PhaseOf(s) \/ Lifecycle!Starts(PhaseOf(s), PhaseOf(s)')
  BY <1>3 DEF WaitingPhase, Stage, Lifecycle!Starts
<1> HIDE DEF r
<1>6. Lifecycle!MovesOn(r)
  BY <1>1, <1>4, <1>5 DEF Lifecycle!MovesOn
<1> QED
  BY <1>6 DEF r

\* In the first run, nobody is left waiting for a GPU while nobody works.
LEMMA HandlerServes ==
    ASSUME Inv, Inv', PhasesSeen, PhasesSeen', HandleEvent, runs' <= 1
    PROVE  Lifecycle!Serve
<1>1. PICK e, q : Handled(e, q)
  BY EveryHandlerReturns
<1>2. /\ Running /\ e.kind.request_id \in Request
      /\ trace' = trace /\ role' = role
  BY <1>1, HandledParts
<1>3. PhasesTyped'
  BY <1>2, PhasesTypedNext DEF Running
<1>4. \E r \in Request : Lifecycle!MovesOn(r)
  BY <1>1, <1>2, HandlerMovesOne
<1>5. Lifecycle!SomebodyWorks'
  BY DEF PhasesSeen, SomebodyServes, Lifecycle!SomebodyWorks, WaitingPhase,
         Lifecycle!WaitingFor, Lifecycle!AtWork
<1>6. Staffed' = Staffed
  BY <1>2 DEF Staffed, Serves
<1> QED
  BY <1>3, <1>4, <1>5, <1>6 DEF PhasesTyped, Lifecycle!Serve

\* Every step of a runner that runs once is a step of RequestLifecycle, and so
\* the runner implements it: one request at a time ends what it was doing and
\* moves on, and nobody waits for a stage that has a GPU while nobody works.
THEOREM RunnerImplementsLifecycle == Spec /\ [](runs <= 1) => ImplementsLifecycle
<1>1. Inv /\ Inv' /\ PhasesSeen /\ PhasesSeen' /\ (runs <= 1)' /\ [Next]_vars
        => [Lifecycle!Next]_Lifecycle!lcVars
  <2> SUFFICES ASSUME Inv, Inv', PhasesSeen, PhasesSeen', (runs <= 1)', [Next]_vars
               PROVE  [Lifecycle!Next]_Lifecycle!lcVars
    OBVIOUS
  <2>1. CASE \E tr \in Traces : StartRun(tr)
    <3>1. Lifecycle!Submit
      BY <2>1, FirstRunSubmits
    <3> QED
      BY <3>1 DEF Lifecycle!Next
  <2>2. CASE HandleEvent
    <3>1. Lifecycle!Serve
      BY <2>2, HandlerServes
    <3> QED
      BY <3>1 DEF Lifecycle!Next
  <2>3. CASE UNCHANGED vars
    <3>1. /\ queue' = queue /\ trace' = trace /\ role' = role
          /\ waiting' = waiting /\ results' = results
      BY <2>3 DEF vars, simVars, clusterVars
    <3>2. \A r \in Request : PhaseOf(r)' = PhaseOf(r)
      BY <3>1 DEF PhaseOf, Waits
    <3>3. Staffed' = Staffed
      BY <3>1 DEF Staffed, Serves
    <3> QED
      BY <3>2, <3>3 DEF Lifecycle!lcVars
  <2> QED
    BY <2>1, <2>2, <2>3 DEF Next
<1>2. Inv => PhasesSeen
  BY Seen
<1> QED
  BY <1>1, <1>2, BeginsNew, Always, PTL
      DEF Spec, ImplementsLifecycle, Lifecycle!Spec

-----------------------------------------------------------------------------
(* NoReuseRunner, beside it *)

Later(a, b) == Baseline!Later(a, b)

-----------------------------------------------------------------------------
(* Workers that are booked, for either stage *)

\* b says of each worker when it is free again.
Vector(b) == \E n \in Nat \ {0} : b \in [1 .. n -> Nat]

\* A worker that is free first is booked from from to to, for a request that is
\* ready at the time ready.
Books(b, c, w, ready, from, to) ==
    /\ w \in DOMAIN b
    /\ \A v \in DOMAIN b : b[w] <= b[v]
    /\ from = Later(ready, b[w])
    /\ to \in Nat /\ from <= to
    /\ c = [b EXCEPT ![w] = to]

LEMMA VectorParts ==
    ASSUME NEW b, Vector(b)
    PROVE  /\ IsFiniteSet(DOMAIN b) /\ DOMAIN b # {}
           /\ DOMAIN b \subseteq Nat
           /\ b \in [DOMAIN b -> Nat]
<1>1. PICK n \in Nat \ {0} : b \in [1 .. n -> Nat]
  BY DEF Vector
<1>2. IsFiniteSet(1 .. n)
  BY FS_Interval
<1> QED
  BY <1>1, <1>2

LEMMA EarliestIs ==
    ASSUME NEW b, Vector(b), NEW w, w = Baseline!EarliestWorker(b)
    PROVE  w \in DOMAIN b /\ \A v \in DOMAIN b : b[w] <= b[v]
<1> DEFINE S == DOMAIN b
           R == {vw \in S \X S : \/ b[vw[1]] < b[vw[2]]
                                 \/ b[vw[1]] = b[vw[2]] /\ vw[1] < vw[2]}
<1>1. IsFiniteSet(S) /\ S # {} /\ S \subseteq Nat /\ \A v \in S : b[v] \in Nat
  BY VectorParts
<1>2. Orders(R, S)
  BY <1>1 DEF Orders
<1>3. \E x \in S : \A y \in S : y # x => <<x, y>> \in R
  <2> HIDE DEF S, R
  <2> QED
    BY <1>1, <1>2, FirstExists
<1>4. \E x \in S : \A y \in S : b[x] < b[y] \/ (b[x] = b[y] /\ x <= y)
  <2>1. PICK x \in S : \A y \in S : y # x => <<x, y>> \in R
    BY <1>3
  <2>2. ASSUME NEW y \in S PROVE b[x] < b[y] \/ (b[x] = b[y] /\ x <= y)
    <3>1. CASE y = x
      BY <1>1, <3>1
    <3>2. CASE y # x
      <4>1. <<x, y>> \in R
        BY <2>1, <3>2
      <4>2. b[x] < b[y] \/ (b[x] = b[y] /\ x < y)
        BY <4>1
      <4>3. x \in Nat /\ y \in Nat
        BY <1>1
      <4> QED
        BY <4>2, <4>3
    <3> QED
      BY <3>1, <3>2
  <2> QED
    BY <2>2
<1>5. w \in S /\ \A y \in S : b[w] < b[y] \/ (b[w] = b[y] /\ w <= y)
  BY <1>4 DEF Baseline!EarliestWorker
<1> QED
  BY <1>1, <1>5

LEMMA BooksVector ==
    ASSUME NEW b, Vector(b), NEW c, NEW w, NEW ready, NEW from, NEW to,
           Books(b, c, w, ready, from, to)
    PROVE  Vector(c) /\ DOMAIN c = DOMAIN b /\ c[w] = to
           /\ \A v \in DOMAIN b \ {w} : c[v] = b[v]
BY DEF Vector, Books

-----------------------------------------------------------------------------
(* Who was given which worker *)

\* by gives each of the requests S, at work from f to g, a worker; no two of
\* them are at work on one worker at one time.
Shares(by, S, f, g, b) ==
    /\ by \in [S -> DOMAIN b]
    /\ \A s \in S : f[s] <= g[s] /\ g[s] <= b[by[s]]
    /\ \A s, t \in S : s # t /\ by[s] = by[t] => g[s] <= f[t] \/ g[t] <= f[s]

\* f, and the value x for r.
Plus(f, r, x) == [s \in DOMAIN f \cup {r} |-> IF s = r THEN x ELSE f[s]]

LEMMA SharesMore ==
    ASSUME NEW b, Vector(b), NEW S, NEW f \in [S -> Nat], NEW g \in [S -> Nat],
           NEW by, Shares(by, S, f, g, b),
           NEW c, NEW w, NEW ready \in Nat, NEW from, NEW to,
           Books(b, c, w, ready, from, to), NEW r, r \notin S
    PROVE  Shares(Plus(by, r, w), S \cup {r}, Plus(f, r, from), Plus(g, r, to), c)
<1> DEFINE by2 == Plus(by, r, w)
           f2 == Plus(f, r, from)
           g2 == Plus(g, r, to)
<1>1. /\ DOMAIN c = DOMAIN b /\ c[w] = to /\ \A v \in DOMAIN b \ {w} : c[v] = b[v]
      /\ w \in DOMAIN b /\ \A v \in DOMAIN b : b[v] \in Nat /\ b[w] <= b[v]
  BY BooksVector, VectorParts DEF Books
<1>2. /\ from \in Nat /\ to \in Nat /\ from <= to /\ b[w] <= from
  BY <1>1 DEF Books, Later, Baseline!Later
<1>3. /\ by2[r] = w /\ f2[r] = from /\ g2[r] = to
      /\ \A s \in S : by2[s] = by[s] /\ f2[s] = f[s] /\ g2[s] = g[s] /\ s # r
  BY DEF Plus, Shares
<1>4. by2 \in [S \cup {r} -> DOMAIN c]
  BY <1>1 DEF Plus, Shares
<1>5. ASSUME NEW s \in S
      PROVE  /\ f[s] \in Nat /\ g[s] \in Nat /\ by[s] \in DOMAIN b
             /\ f[s] <= g[s] /\ g[s] <= b[by[s]]
             /\ g[s] <= c[by[s]]
             /\ by[s] = w => g[s] <= from
  <2>1. f[s] \in Nat /\ g[s] \in Nat /\ by[s] \in DOMAIN b
        /\ f[s] <= g[s] /\ g[s] <= b[by[s]]
    BY DEF Shares
  <2>2. CASE by[s] = w
    BY <1>1, <1>2, <2>1, <2>2
  <2>3. CASE by[s] # w
    BY <1>1, <2>1, <2>3
  <2> QED
    BY <2>1, <2>2, <2>3
<1> HIDE DEF by2, f2, g2
<1>6. ASSUME NEW s \in S \cup {r} PROVE f2[s] <= g2[s] /\ g2[s] <= c[by2[s]]
  BY <1>1, <1>2, <1>3, <1>5
<1>7. ASSUME NEW s \in S \cup {r}, NEW t \in S \cup {r}, s # t, by2[s] = by2[t]
      PROVE  g2[s] <= f2[t] \/ g2[t] <= f2[s]
  <2>1. CASE s \in S /\ t \in S
    BY <1>3, <1>7, <2>1 DEF Shares
  <2>2. CASE s = r
    BY <1>3, <1>5, <1>7, <2>2
  <2>3. CASE t = r
    BY <1>3, <1>5, <1>7, <2>3
  <2> QED
    BY <2>1, <2>2, <2>3
<1> QED
  BY <1>4, <1>6, <1>7 DEF Shares, by2, f2, g2

\* The requests at work at the time t.
AtWorkAt(S, f, g, t) == {s \in S : f[s] <= t /\ t < g[s]}

\* They are on distinct workers, hence no more than there are.
LEMMA NoMoreThanWorkers ==
    ASSUME NEW b, Vector(b), NEW S, NEW f \in [S -> Nat], NEW g \in [S -> Nat],
           NEW by, Shares(by, S, f, g, b), NEW t \in Nat
    PROVE  LET A == AtWorkAt(S, f, g, t)
           IN  /\ IsFiniteSet(A)
               /\ Cardinality(A) <= Cardinality(DOMAIN b)
               /\ (\A w \in DOMAIN b : \E s \in A : by[s] = w)
                     => Cardinality(A) = Cardinality(DOMAIN b)
<1> DEFINE A == AtWorkAt(S, f, g, t)
           on == [s \in A |-> by[s]]
<1>1. A \subseteq S /\ \A s \in A : f[s] <= t /\ t < g[s]
  BY DEF AtWorkAt
<1>2. on \in [A -> DOMAIN b] /\ \A s \in A : on[s] = by[s]
  BY <1>1 DEF Shares
<1>3. ASSUME NEW s \in A, NEW u \in A, on[s] = on[u] PROVE s = u
  <2>1. f[s] \in Nat /\ g[s] \in Nat /\ f[u] \in Nat /\ g[u] \in Nat
    BY <1>1
  <2>2. by[s] = by[u]
    BY <1>2, <1>3
  <2>3. ~(g[s] <= f[u]) /\ ~(g[u] <= f[s])
    BY <1>1, <2>1
  <2> QED
    BY <1>1, <2>2, <2>3 DEF Shares
<1> HIDE DEF A, on
<1>4. on \in Injection(A, DOMAIN b)
  BY <1>2, <1>3 DEF Injection, IsInjective
<1>5. IsFiniteSet(DOMAIN b)
  BY VectorParts
<1>6. /\ IsFiniteSet(A) /\ Cardinality(A) <= Cardinality(DOMAIN b)
      /\ Cardinality(A) = Cardinality(DOMAIN b) <=> on \in Surjection(A, DOMAIN b)
  BY <1>4, <1>5, FS_Injection
<1>7. ASSUME \A w \in DOMAIN b : \E s \in A : by[s] = w
      PROVE  on \in Surjection(A, DOMAIN b)
  BY <1>2, <1>7 DEF Surjection
<1> QED
  BY <1>6, <1>7 DEF A

-----------------------------------------------------------------------------
(* The baseline *)

Served == DOMAIN served

Arrival(r) == requests[r].arrival_ns

\* Begin and end of a stage of the requests served so far.
BeginOf(stage) ==
    [s \in Served |-> IF stage = "Prefill" THEN served[s].prefill_start_ns
                                           ELSE served[s].decode_start_ns]

EndOf(stage) ==
    [s \in Served |-> IF stage = "Prefill" THEN served[s].prefill_done_ns
                                           ELSE served[s].finish_ns]

BusyOf(stage) == IF stage = "Prefill" THEN prefill_busy_until ELSE decode_busy_until

Report == [prefill_start_ns : Nat, prefill_done_ns : Nat, decode_start_ns : Nat,
           first_token_ns : Nat, finish_ns : Nat]

\* What the variables hold.  The requests that have been served are those that
\* came first.
BaseTypes ==
    /\ requests = <<>> \/ requests \in Traces
    /\ \A stage \in Stage : Vector(BusyOf(stage))
    /\ Served \subseteq DOMAIN requests
    /\ served \in [Served -> Report]
    /\ calls \in Nat
    /\ calls = 0 => requests = <<>>
    /\ calls <= 1 /\ Served = {} =>
          \A w \in DOMAIN prefill_busy_until : prefill_busy_until[w] = 0
    /\ \A s \in Served, r \in Baseline!ToServe : Baseline!Sooner(s, r)

\* A prefill begins when its request arrives, or no later than any worker is
\* free now.
Pressing ==
    \A s \in Served :
        LET begin == served[s].prefill_start_ns
        IN  /\ Arrival(s) <= begin
            /\ begin = Arrival(s)
                 \/ \A w \in DOMAIN prefill_busy_until : begin <= prefill_busy_until[w]

\* s is prefilled on w at the time t.
WorksOn(by, s, w, t) ==
    /\ by[s] = w
    /\ served[s].prefill_start_ns <= t /\ t < served[s].prefill_done_ns

\* No prefill worker w idles at t when a request waits for its prefill, or when
\* everybody served so far has arrived and w will be busy later.
Diligent(by) ==
    calls <= 1 =>
        \A w \in DOMAIN prefill_busy_until, t \in Nat :
            \/ \E r \in Served : Arrival(r) <= t /\ t < served[r].prefill_start_ns
            \/ /\ \A r \in Served : Arrival(r) <= t
               /\ t < prefill_busy_until[w]
            => \E s \in Served : WorksOn(by, s, w, t)

SharedBy(stage, by) == Shares(by, Served, BeginOf(stage), EndOf(stage), BusyOf(stage))

BaseInv ==
    /\ BaseTypes
    /\ Pressing
    /\ PrefillsInOrder
    /\ \E by : SharedBy("Prefill", by) /\ Diligent(by)
    /\ \E by : SharedBy("Decode", by)

LEMMA BaseTraces == Traces \subseteq [Request -> LlmRequest] /\ Request \subseteq Nat
                    /\ \A n \in Tokens : PrefillTime[n] \in Nat /\ DecodeStepTime[n] \in Nat
BY RunnerAssumption, ServingAssumption

LEMMA Products == \A m, n \in Nat : m * n \in Nat
OBVIOUS

\* r has been served next, with the result x, by the workers w and v.
ServedNext(r, x, w, v) ==
    /\ r \in Baseline!ToServe /\ \A s \in Baseline!ToServe \ {r} : Baseline!Sooner(r, s)
    /\ x \in Report
    /\ Arrival(r) \in Nat
    /\ Books(prefill_busy_until, prefill_busy_until', w, Arrival(r),
             x.prefill_start_ns, x.prefill_done_ns)
    /\ Books(decode_busy_until, decode_busy_until', v, x.prefill_done_ns,
             x.decode_start_ns, x.finish_ns)
    /\ x.prefill_done_ns = x.prefill_start_ns + PrefillTime[requests[r].prompt_tokens]
    /\ x.finish_ns = x.decode_start_ns + DecodeStepTime[requests[r].prompt_tokens]
                                           * requests[r].output_tokens
    /\ x.first_token_ns = x.decode_start_ns + DecodeStepTime[requests[r].prompt_tokens]
    /\ served' = Plus(served, r, x)
    /\ UNCHANGED <<requests, calls>>

LEMMA RunOneServes ==
    ASSUME BaseTypes, NEW r, Baseline!RunOne(r)
    PROVE  \E x, w, v : ServedNext(r, x, w, v)
<1> DEFINE req == requests[r]
           w == Baseline!EarliestWorker(prefill_busy_until)
           from == Baseline!Later(req.arrival_ns, prefill_busy_until[w])
           done == from + PrefillTime[req.prompt_tokens]
           v == Baseline!EarliestWorker(decode_busy_until)
           start == Baseline!Later(done, decode_busy_until[v])
           step == DecodeStepTime[req.prompt_tokens]
           finish == start + step * req.output_tokens
           x == [prefill_start_ns |-> from, prefill_done_ns |-> done,
                 decode_start_ns |-> start, first_token_ns |-> start + step,
                 finish_ns |-> finish]
<1>1. /\ r \in Baseline!ToServe /\ \A s \in Baseline!ToServe \ {r} : Baseline!Sooner(r, s)
      /\ prefill_busy_until' = [prefill_busy_until EXCEPT ![w] = done]
      /\ decode_busy_until' = [decode_busy_until EXCEPT ![v] = finish]
      /\ served' = [s \in DOMAIN served \cup {r} |-> IF s = r THEN x ELSE served[s]]
      /\ UNCHANGED <<requests, calls>>
  BY DEF Baseline!RunOne
<1>2. Vector(prefill_busy_until) /\ Vector(decode_busy_until)
  BY DEF BaseTypes, BusyOf, Stage
<1>3. /\ w \in DOMAIN prefill_busy_until
      /\ \A u \in DOMAIN prefill_busy_until :
            prefill_busy_until[w] <= prefill_busy_until[u]
      /\ prefill_busy_until[w] \in Nat
  BY <1>2, EarliestIs, VectorParts
<1>4. /\ v \in DOMAIN decode_busy_until
      /\ \A u \in DOMAIN decode_busy_until :
            decode_busy_until[v] <= decode_busy_until[u]
      /\ decode_busy_until[v] \in Nat
  BY <1>2, EarliestIs, VectorParts
<1>5. req \in LlmRequest
  <2>1. r \in DOMAIN requests
    BY <1>1 DEF Baseline!ToServe
  <2>2. requests \in Traces
    BY <2>1 DEF BaseTypes
  <2> QED
    BY <2>1, <2>2, BaseTraces
<1>6. /\ req.arrival_ns \in Nat /\ req.prompt_tokens \in Tokens
      /\ req.output_tokens \in Nat
  BY <1>5 DEF LlmRequest
<1> HIDE DEF req, w, v
<1>7. from \in Nat
  BY <1>3, <1>6 DEF Baseline!Later
<1> HIDE DEF from
<1>8. done \in Nat /\ from <= done /\ step \in Nat
  BY <1>6, <1>7, BaseTraces
<1> HIDE DEF done, step
<1>9. start \in Nat
  BY <1>4, <1>8 DEF Baseline!Later
<1> HIDE DEF start
<1>10. step * req.output_tokens \in Nat
  BY <1>6, <1>8, Products
<1>11. start + step \in Nat /\ finish \in Nat /\ start <= finish
  BY <1>8, <1>9, <1>10
<1> HIDE DEF finish
<1>12. x \in Report
  BY <1>7, <1>8, <1>9, <1>11 DEF Report
<1>13. Books(prefill_busy_until, prefill_busy_until', w, Arrival(r), from, done)
  BY <1>1, <1>3, <1>8 DEF Books, Later, from, req, Arrival
<1>14. Books(decode_busy_until, decode_busy_until', v, done, start, finish)
  BY <1>1, <1>4, <1>11 DEF Books, Later, start
<1>15. served' = Plus(served, r, x)
  BY <1>1 DEF Plus
<1>16. /\ done = from + PrefillTime[requests[r].prompt_tokens]
       /\ finish = start + DecodeStepTime[requests[r].prompt_tokens]
                             * requests[r].output_tokens
       /\ start + step = start + DecodeStepTime[requests[r].prompt_tokens]
  BY DEF done, finish, step, req
<1>17. Arrival(r) \in Nat
  BY <1>6 DEF Arrival, req
<1>18. /\ x.prefill_start_ns = from /\ x.prefill_done_ns = done
       /\ x.decode_start_ns = start /\ x.first_token_ns = start + step
       /\ x.finish_ns = finish
  OBVIOUS
<1> HIDE DEF x
<1>19. ServedNext(r, x, w, v)
  BY <1>1, <1>12, <1>13, <1>14, <1>15, <1>16, <1>17, <1>18 DEF ServedNext
<1> QED
  BY <1>19

LEMMA NextFunctions ==
    ASSUME BaseTypes, NEW r, NEW x, NEW w, NEW v, ServedNext(r, x, w, v)
    PROVE  /\ r \notin Served /\ r \in DOMAIN requests
           /\ Served' = Served \cup {r}
           /\ served'[r] = x /\ \A s \in Served : served'[s] = served[s]
           /\ BeginOf("Prefill")' = Plus(BeginOf("Prefill"), r, x.prefill_start_ns)
           /\ EndOf("Prefill")' = Plus(EndOf("Prefill"), r, x.prefill_done_ns)
           /\ BeginOf("Decode")' = Plus(BeginOf("Decode"), r, x.decode_start_ns)
           /\ EndOf("Decode")' = Plus(EndOf("Decode"), r, x.finish_ns)
<1>1. /\ r \notin Served /\ r \in DOMAIN requests
      /\ served' = Plus(served, r, x)
  BY DEF ServedNext, Baseline!ToServe, Served
<1>2. /\ Served' = Served \cup {r}
      /\ served'[r] = x /\ \A s \in Served : served'[s] = served[s]
  BY <1>1 DEF Plus, Served
<1>3. \A s \in Served' : served'[s] = IF s = r THEN x ELSE served[s]
  BY <1>1, <1>2
<1>4. BeginOf("Prefill")' = Plus(BeginOf("Prefill"), r, x.prefill_start_ns)
  <2> DEFINE f == [s \in Served |-> served[s].prefill_start_ns]
  <2>1. BeginOf("Prefill") = f
    BY DEF BeginOf
  <2>2. BeginOf("Prefill")' = [s \in Served' |-> served'[s].prefill_start_ns]
    BY DEF BeginOf
  <2>3. [s \in Served' |-> served'[s].prefill_start_ns] = Plus(f, r, x.prefill_start_ns)
    BY <1>2, <1>3 DEF Plus
  <2> QED
    BY <2>1, <2>2, <2>3
<1>5. EndOf("Prefill")' = Plus(EndOf("Prefill"), r, x.prefill_done_ns)
  <2> DEFINE f == [s \in Served |-> served[s].prefill_done_ns]
  <2>1. EndOf("Prefill") = f
    BY DEF EndOf
  <2>2. EndOf("Prefill")' = [s \in Served' |-> served'[s].prefill_done_ns]
    BY DEF EndOf
  <2>3. [s \in Served' |-> served'[s].prefill_done_ns] = Plus(f, r, x.prefill_done_ns)
    BY <1>2, <1>3 DEF Plus
  <2> QED
    BY <2>1, <2>2, <2>3
<1>6. BeginOf("Decode")' = Plus(BeginOf("Decode"), r, x.decode_start_ns)
  <2> DEFINE f == [s \in Served |-> served[s].decode_start_ns]
  <2>1. BeginOf("Decode") = f
    BY DEF BeginOf
  <2>2. BeginOf("Decode")' = [s \in Served' |-> served'[s].decode_start_ns]
    BY DEF BeginOf
  <2>3. [s \in Served' |-> served'[s].decode_start_ns] = Plus(f, r, x.decode_start_ns)
    BY <1>2, <1>3 DEF Plus
  <2> QED
    BY <2>1, <2>2, <2>3
<1>7. EndOf("Decode")' = Plus(EndOf("Decode"), r, x.finish_ns)
  <2> DEFINE f == [s \in Served |-> served[s].finish_ns]
  <2>1. EndOf("Decode") = f
    BY DEF EndOf
  <2>2. EndOf("Decode")' = [s \in Served' |-> served'[s].finish_ns]
    BY DEF EndOf
  <2>3. [s \in Served' |-> served'[s].finish_ns] = Plus(f, r, x.finish_ns)
    BY <1>2, <1>3 DEF Plus
  <2> QED
    BY <2>1, <2>2, <2>3
<1> QED
  BY <1>1, <1>2, <1>4, <1>5, <1>6, <1>7

LEMMA BaseFunctions ==
    ASSUME BaseTypes
    PROVE  /\ \A stage \in Stage : /\ BeginOf(stage) \in [Served -> Nat]
                                   /\ EndOf(stage) \in [Served -> Nat]
           /\ \A s \in Served : served[s] \in Report /\ Arrival(s) \in Nat
           /\ \A s \in DOMAIN requests : Arrival(s) \in Nat /\ s \in Nat
<1>1. \A s \in Served : served[s] \in Report
  BY DEF BaseTypes
<1>2. \A s \in DOMAIN requests : Arrival(s) \in Nat /\ s \in Nat
  <2>1. CASE requests = <<>>
    BY <2>1
  <2>2. CASE requests \in Traces
    <3>1. requests \in [Request -> LlmRequest] /\ Request \subseteq Nat
      BY <2>2, BaseTraces
    <3>2. \A s \in Request : requests[s].arrival_ns \in Nat
      BY <3>1 DEF LlmRequest
    <3> QED
      BY <3>1, <3>2 DEF Arrival
  <2> QED
    BY <2>1, <2>2 DEF BaseTypes
<1>3. \A s \in Served : served[s] \in Report /\ Arrival(s) \in Nat
  BY <1>1, <1>2 DEF BaseTypes
<1> QED
  BY <1>1, <1>2, <1>3 DEF BeginOf, EndOf, Report, Stage

LEMMA BaseTypesKept ==
    ASSUME BaseTypes, NEW r, NEW x, NEW w, NEW v, ServedNext(r, x, w, v)
    PROVE  BaseTypes'
<1>1. /\ r \notin Served /\ r \in DOMAIN requests
      /\ Served' = Served \cup {r}
      /\ served'[r] = x /\ \A s \in Served : served'[s] = served[s]
      /\ UNCHANGED <<requests, calls>> /\ x \in Report
      /\ served' = Plus(served, r, x)
      /\ r \in Baseline!ToServe /\ \A s \in Baseline!ToServe \ {r} : Baseline!Sooner(r, s)
  BY NextFunctions DEF ServedNext
<1>2. \A stage \in Stage : Vector(BusyOf(stage)')
  <2>1. Vector(prefill_busy_until) /\ Vector(decode_busy_until)
    BY DEF BaseTypes, BusyOf, Stage
  <2>2. Vector(prefill_busy_until') /\ Vector(decode_busy_until')
    BY <2>1, BooksVector DEF ServedNext
  <2> QED
    BY <2>2 DEF BusyOf
<1>3. served' \in [Served' -> Report]
  BY <1>1 DEF BaseTypes, Plus, Served
<1>4. Baseline!ToServe' = Baseline!ToServe \ {r}
  BY <1>1 DEF Baseline!ToServe, Served
<1>5. \A s, u : Baseline!Sooner(s, u)' = Baseline!Sooner(s, u)
  BY <1>1 DEF Baseline!Sooner
<1>6. \A s \in Served', u \in Baseline!ToServe' : Baseline!Sooner(s, u)'
  BY <1>1, <1>4, <1>5 DEF BaseTypes
<1> QED
  BY <1>1, <1>2, <1>3, <1>6 DEF BaseTypes, Vector

\* A request that comes sooner has arrived no later.
LEMMA SoonerArrives ==
    ASSUME BaseTypes, NEW r \in DOMAIN requests, NEW s \in DOMAIN requests,
           Baseline!Sooner(s, r)
    PROVE  Arrival(s) <= Arrival(r) /\ ~Baseline!Sooner(r, s)
BY BaseFunctions DEF Baseline!Sooner, Arrival

LEMMA PressingKept ==
    ASSUME BaseTypes, Pressing, PrefillsInOrder,
           NEW r, NEW x, NEW w, NEW v, ServedNext(r, x, w, v)
    PROVE  Pressing' /\ PrefillsInOrder'
<1> DEFINE b == prefill_busy_until
           begin(s) == served[s].prefill_start_ns
<1>1. /\ r \notin Served /\ r \in DOMAIN requests
      /\ Served' = Served \cup {r} /\ Served \subseteq DOMAIN requests
      /\ served'[r] = x /\ \A s \in Served : served'[s] = served[s]
      /\ requests' = requests /\ x \in Report
      /\ r \in Baseline!ToServe
  BY NextFunctions DEF ServedNext, BaseTypes
<1>2. /\ DOMAIN b' = DOMAIN b /\ b'[w] = x.prefill_done_ns
      /\ \A u \in DOMAIN b \ {w} : b'[u] = b[u]
      /\ w \in DOMAIN b /\ \A u \in DOMAIN b : b[u] \in Nat /\ b[w] <= b[u]
      /\ x.prefill_start_ns = Baseline!Later(Arrival(r), b[w])
      /\ x.prefill_start_ns <= x.prefill_done_ns
  <2>1. Vector(b) /\ Books(b, b', w, Arrival(r), x.prefill_start_ns, x.prefill_done_ns)
    BY DEF BaseTypes, BusyOf, Stage, ServedNext
  <2> QED
    BY <2>1, BooksVector, VectorParts DEF Books, Later
<1>3. /\ x.prefill_start_ns \in Nat /\ x.prefill_done_ns \in Nat /\ Arrival(r) \in Nat
      /\ \A s \in Served : begin(s) \in Nat /\ Arrival(s) \in Nat
  BY <1>1, BaseFunctions DEF Report
<1>4. /\ Arrival(r) <= x.prefill_start_ns
      /\ x.prefill_start_ns = Arrival(r)
           \/ \A u \in DOMAIN b : x.prefill_start_ns <= b'[u]
      /\ b[w] <= x.prefill_start_ns
  BY <1>2, <1>3 DEF Baseline!Later
<1>5. \A u \in DOMAIN b : b[u] <= b'[u] /\ b'[u] \in Nat
  BY <1>2, <1>3, <1>4
<1>6. ASSUME NEW s \in Served
      PROVE  /\ Arrival(s) <= begin(s)
             /\ begin(s) = Arrival(s) \/ \A u \in DOMAIN b : begin(s) <= b[u]
  BY DEF Pressing
<1>7. ASSUME NEW s \in Served
      PROVE  begin(s) = Arrival(s) \/ \A u \in DOMAIN b : begin(s) <= b'[u]
  BY <1>2, <1>3, <1>5, <1>6
<1>8. ASSUME NEW s \in Served PROVE begin(s) <= x.prefill_start_ns /\ ~Baseline!Sooner(r, s)
  <2>1. Arrival(s) <= Arrival(r) /\ ~Baseline!Sooner(r, s)
    BY <1>1, SoonerArrives DEF BaseTypes
  <2>2. begin(s) = Arrival(s) \/ begin(s) <= b[w]
    BY <1>2, <1>6
  <2> QED
    BY <1>2, <1>3, <1>4, <2>1, <2>2
<1>9. Pressing'
  <2>1. ASSUME NEW s \in Served'
        PROVE  /\ Arrival(s) <= served'[s].prefill_start_ns
               /\ served'[s].prefill_start_ns = Arrival(s)
                    \/ \A u \in DOMAIN b' : served'[s].prefill_start_ns <= b'[u]
    BY <1>1, <1>2, <1>4, <1>6, <1>7
  <2>2. \A s : Arrival(s)' = Arrival(s)
    BY <1>1 DEF Arrival
  <2> QED
    BY <2>1, <2>2 DEF Pressing
<1>10. PrefillsInOrder'
  <2>1. \A s, u : Baseline!Sooner(s, u)' = Baseline!Sooner(s, u)
    BY <1>1 DEF Baseline!Sooner
  <2>2. ~Baseline!Sooner(r, r)
    BY <1>1, <1>3, BaseFunctions DEF Baseline!Sooner, Arrival
  <2>3. ASSUME NEW s \in Served', NEW u \in Served', Baseline!Sooner(s, u)
        PROVE  served'[s].prefill_start_ns <= served'[u].prefill_start_ns
    <3>1. CASE s \in Served /\ u \in Served
      BY <1>1, <2>3, <3>1 DEF PrefillsInOrder, Baseline!PrefillsInOrder, Served
    <3>2. CASE s = r
      BY <1>1, <1>8, <2>2, <2>3, <3>2
    <3>3. CASE s \in Served /\ u = r
      BY <1>1, <1>8, <3>3
    <3> QED
      BY <1>1, <3>1, <3>2, <3>3
  <2> QED
    BY <2>1, <2>3 DEF PrefillsInOrder, Baseline!PrefillsInOrder, Served
<1> QED
  BY <1>9, <1>10

LEMMA SharedKept ==
    ASSUME BaseTypes, NEW r, NEW x, NEW w, NEW v, ServedNext(r, x, w, v),
           NEW by
    PROVE  /\ SharedBy("Prefill", by) => SharedBy("Prefill", Plus(by, r, w))'
           /\ SharedBy("Decode", by) => SharedBy("Decode", Plus(by, r, v))'
<1>1. /\ Vector(prefill_busy_until) /\ Vector(decode_busy_until)
      /\ "Prefill" \in Stage /\ "Decode" \in Stage
  BY DEF BaseTypes, BusyOf, Stage
<1>2. r \notin Served /\ Served' = Served \cup {r}
  BY NextFunctions
<1>3. x.prefill_done_ns \in Nat /\ Arrival(r) \in Nat
  BY DEF ServedNext, Report
<1>4. ASSUME SharedBy("Prefill", by) PROVE SharedBy("Prefill", Plus(by, r, w))'
  <2>1. BeginOf("Prefill") \in [Served -> Nat] /\ EndOf("Prefill") \in [Served -> Nat]
    BY <1>1, BaseFunctions
  <2>2. Shares(by, Served, BeginOf("Prefill"), EndOf("Prefill"), prefill_busy_until)
    BY <1>4 DEF SharedBy, BusyOf
  <2>3. Books(prefill_busy_until, prefill_busy_until', w, Arrival(r),
              x.prefill_start_ns, x.prefill_done_ns)
    BY DEF ServedNext
  <2>4. Shares(Plus(by, r, w), Served \cup {r},
               Plus(BeginOf("Prefill"), r, x.prefill_start_ns),
               Plus(EndOf("Prefill"), r, x.prefill_done_ns), prefill_busy_until')
    BY <1>1, <1>2, <1>3, <2>1, <2>2, <2>3, SharesMore
  <2>5. Shares(Plus(by, r, w), Served', BeginOf("Prefill")', EndOf("Prefill")',
               prefill_busy_until')
    BY <1>2, <2>4, NextFunctions
  <2> QED
    BY <2>5 DEF SharedBy, BusyOf
<1>5. ASSUME SharedBy("Decode", by) PROVE SharedBy("Decode", Plus(by, r, v))'
  <2>1. BeginOf("Decode") \in [Served -> Nat] /\ EndOf("Decode") \in [Served -> Nat]
    BY <1>1, BaseFunctions
  <2>2. Shares(by, Served, BeginOf("Decode"), EndOf("Decode"), decode_busy_until)
    BY <1>5 DEF SharedBy, BusyOf
  <2>3. Books(decode_busy_until, decode_busy_until', v, x.prefill_done_ns,
              x.decode_start_ns, x.finish_ns)
    BY DEF ServedNext
  <2>4. Shares(Plus(by, r, v), Served \cup {r},
               Plus(BeginOf("Decode"), r, x.decode_start_ns),
               Plus(EndOf("Decode"), r, x.finish_ns), decode_busy_until')
    BY <1>1, <1>2, <1>3, <2>1, <2>2, <2>3, SharesMore
  <2>5. Shares(Plus(by, r, v), Served', BeginOf("Decode")', EndOf("Decode")',
               decode_busy_until')
    BY <1>2, <2>4, NextFunctions
  <2> QED
    BY <2>5 DEF SharedBy, BusyOf
<1> QED
  BY <1>4, <1>5

LEMMA DiligentKept ==
    ASSUME BaseTypes, Pressing, NEW r, NEW x, NEW w, NEW v, ServedNext(r, x, w, v),
           NEW by, SharedBy("Prefill", by), Diligent(by)
    PROVE  Diligent(Plus(by, r, w))'
<1> DEFINE b == prefill_busy_until
           by2 == Plus(by, r, w)
<1>1. /\ r \notin Served /\ r \in DOMAIN requests
      /\ Served' = Served \cup {r} /\ Served \subseteq DOMAIN requests
      /\ served'[r] = x /\ \A s \in Served : served'[s] = served[s]
      /\ requests' = requests /\ x \in Report /\ calls' = calls
      /\ r \in Baseline!ToServe
  BY NextFunctions DEF ServedNext, BaseTypes
<1>2. /\ DOMAIN b' = DOMAIN b /\ b'[w] = x.prefill_done_ns
      /\ \A u \in DOMAIN b \ {w} : b'[u] = b[u]
      /\ w \in DOMAIN b /\ \A u \in DOMAIN b : b[u] \in Nat /\ b[w] <= b[u]
      /\ x.prefill_start_ns = Baseline!Later(Arrival(r), b[w])
      /\ x.prefill_start_ns <= x.prefill_done_ns
  <2>1. Vector(b) /\ Books(b, b', w, Arrival(r), x.prefill_start_ns, x.prefill_done_ns)
    BY DEF BaseTypes, BusyOf, Stage, ServedNext
  <2> QED
    BY <2>1, BooksVector, VectorParts DEF Books, Later
<1>3. /\ x.prefill_start_ns \in Nat /\ x.prefill_done_ns \in Nat /\ Arrival(r) \in Nat
      /\ \A s \in Served : Arrival(s) \in Nat
  BY <1>1, BaseFunctions DEF Report
<1>4. \A s \in Served : Arrival(s) <= Arrival(r)
  BY <1>1, SoonerArrives DEF BaseTypes
<1>5. /\ by2[r] = w /\ \A s \in Served : by2[s] = by[s]
  BY <1>1 DEF Plus, SharedBy, Shares
<1>6. \A s \in Served : \A u, t :
        WorksOn(by, s, u, t) => s \in Served' /\ WorksOn(by2, s, u, t)'
  BY <1>1, <1>5 DEF WorksOn, Plus
<1>7. \A t : x.prefill_start_ns <= t /\ t < x.prefill_done_ns => WorksOn(by2, r, w, t)'
  BY <1>1, <1>5 DEF WorksOn, Plus
<1> SUFFICES ASSUME calls <= 1, NEW u \in DOMAIN b, NEW t \in Nat,
                    \/ \E s \in Served' : /\ Arrival(s) <= t
                                          /\ t < served'[s].prefill_start_ns
                    \/ /\ \A s \in Served' : Arrival(s) <= t
                       /\ t < b'[u]
             PROVE  \E s \in Served' : WorksOn(by2, s, u, t)'
  <2>1. \A s : Arrival(s)' = Arrival(s)
    BY <1>1 DEF Arrival
  <2> QED
    BY <1>1, <1>2, <2>1 DEF Diligent
<1> HIDE DEF by2
<1>8. ASSUME \A s \in Served : Arrival(s) <= t, t < b[u]
      PROVE  \E s \in Served' : WorksOn(by2, s, u, t)'
  <2>1. \E s \in Served : WorksOn(by, s, u, t)
    BY <1>8 DEF Diligent
  <2> QED
    BY <1>6, <2>1
<1>9. ASSUME Arrival(r) <= t PROVE \A s \in Served : Arrival(s) <= t
  BY <1>3, <1>4, <1>9
<1>10. CASE \E s \in Served : Arrival(s) <= t /\ t < served[s].prefill_start_ns
  <2>1. \E s \in Served : WorksOn(by, s, u, t)
    BY <1>10 DEF Diligent
  <2> QED
    BY <1>6, <2>1
<1>11. CASE Arrival(r) <= t /\ t < x.prefill_start_ns
  <2>1. t < b[w]
    BY <1>2, <1>3, <1>11 DEF Baseline!Later
  <2>2. t < b[u]
    BY <1>2, <2>1
  <2> QED
    BY <1>8, <1>9, <1>11, <2>2
<1>12. CASE (\A s \in Served' : Arrival(s) <= t) /\ t < b'[u]
  <2>1. Arrival(r) <= t
    BY <1>1, <1>12
  <2>2. CASE u # w
    BY <1>2, <1>8, <1>9, <1>12, <2>1, <2>2
  <2>3. CASE u = w /\ x.prefill_start_ns <= t
    BY <1>1, <1>2, <1>7, <1>12, <2>3
  <2>4. CASE u = w /\ ~(x.prefill_start_ns <= t)
    BY <1>3, <1>11, <2>1, <2>4
  <2> QED
    BY <2>2, <2>3, <2>4
<1> QED
  BY <1>1, <1>10, <1>11, <1>12

LEMMA NobodyServed == BaseTypes /\ Served = {} => BaseInv
<1> SUFFICES ASSUME BaseTypes, Served = {} PROVE BaseInv
  OBVIOUS
<1> DEFINE by == [s \in {} |-> 0]
<1>1. SharedBy("Prefill", by) /\ SharedBy("Decode", by)
  BY DEF SharedBy, Shares
<1>2. Diligent(by)
  <2> SUFFICES ASSUME calls <= 1, NEW w \in DOMAIN prefill_busy_until, NEW t \in Nat,
                      t < prefill_busy_until[w]
               PROVE  FALSE
    BY DEF Diligent
  <2> QED
    BY DEF BaseTypes
<1>3. Pressing /\ PrefillsInOrder
  BY DEF Pressing, PrefillsInOrder, Baseline!PrefillsInOrder, Served
<1> QED
  BY <1>1, <1>2, <1>3 DEF BaseInv

LEMMA NobodyServedNext == (BaseTypes /\ Served = {})' => BaseInv'
BY NobodyServed, PTL

LEMMA BaseBegun == Baseline!NRInit => BaseInv
<1> SUFFICES ASSUME Baseline!NRInit PROVE BaseTypes /\ Served = {}
  BY NobodyServed
<1> DEFINE Pairs == {<<Gpus(roles, "Prefill"), Gpus(roles, "Decode")>> : roles \in Clusters}
<1>1. /\ requests = <<>> /\ served = <<>> /\ calls = 0
      /\ \E n \in Pairs :
            /\ prefill_busy_until = [w \in 1 .. Baseline!Later(n[1], 1) |-> 0]
            /\ decode_busy_until = [w \in 1 .. Baseline!Later(n[2], 1) |-> 0]
  BY DEF Baseline!NRInit
<1>2. Pairs \subseteq Nat \X Nat
  BY BaselineAssumption DEF Baseline!NoReuseAssumption
<1> HIDE DEF Pairs
<1>3. PICK n \in Pairs :
         /\ prefill_busy_until = [w \in 1 .. Baseline!Later(n[1], 1) |-> 0]
         /\ decode_busy_until = [w \in 1 .. Baseline!Later(n[2], 1) |-> 0]
  BY <1>1
<1>4. /\ Baseline!Later(n[1], 1) \in Nat \ {0}
      /\ Baseline!Later(n[2], 1) \in Nat \ {0}
  BY <1>2 DEF Baseline!Later
<1>5. Vector(prefill_busy_until) /\ Vector(decode_busy_until)
  BY <1>3, <1>4 DEF Vector
<1>6. Served = {} /\ DOMAIN requests = {}
  BY <1>1 DEF Served
<1>7. \A w \in DOMAIN prefill_busy_until : prefill_busy_until[w] = 0
  BY <1>3
<1> QED
  BY <1>1, <1>5, <1>6, <1>7 DEF BaseTypes, BusyOf, Baseline!ToServe, Served

LEMMA BaseCalled ==
    ASSUME BaseInv, NEW tr \in Traces, Baseline!Call(tr)
    PROVE  BaseInv'
<1>1. /\ calls' = calls + 1 /\ requests' = tr /\ served' = <<>>
      /\ UNCHANGED <<prefill_busy_until, decode_busy_until>>
      /\ BaseTypes
  BY DEF Baseline!Call, BaseInv
<1>2. Served' = {} /\ requests' \in Traces
  BY <1>1 DEF Served
<1>3. calls' \in Nat /\ calls' # 0
  BY <1>1 DEF BaseTypes
<1>4. ASSUME calls' <= 1
      PROVE  \A w \in DOMAIN prefill_busy_until : prefill_busy_until[w] = 0
  <2>1. calls = 0 /\ calls \in Nat
    BY <1>1, <1>4 DEF BaseTypes
  <2>2. Served = {} /\ calls <= 1
    BY <1>1, <2>1 DEF BaseTypes
  <2> QED
    BY <1>1, <2>2 DEF BaseTypes
<1>5. BaseTypes'
  <2>1. \A stage \in Stage : Vector(BusyOf(stage))'
    BY <1>1 DEF BaseTypes, BusyOf, Vector
  <2> QED
    BY <1>1, <1>2, <1>3, <1>4, <2>1 DEF BaseTypes, Served
<1> QED
  BY <1>2, <1>5, NobodyServedNext

LEMMA BaseServes ==
    ASSUME BaseInv, NEW r, Baseline!RunOne(r)
    PROVE  BaseInv'
<1>1. BaseTypes /\ Pressing /\ PrefillsInOrder
  BY DEF BaseInv
<1>2. PICK x, w, v : ServedNext(r, x, w, v)
  BY <1>1, RunOneServes
<1>3. BaseTypes' /\ Pressing' /\ PrefillsInOrder'
  BY <1>1, <1>2, BaseTypesKept, PressingKept
<1>4. \E by : (SharedBy("Prefill", by) /\ Diligent(by))'
  <2>1. PICK by : SharedBy("Prefill", by) /\ Diligent(by)
    BY DEF BaseInv
  <2>2. SharedBy("Prefill", Plus(by, r, w))' /\ Diligent(Plus(by, r, w))'
    BY <1>1, <1>2, <2>1, SharedKept, DiligentKept
  <2> QED
    BY <2>2
<1>5. \E by : SharedBy("Decode", by)'
  <2>1. PICK by : SharedBy("Decode", by)
    BY DEF BaseInv
  <2>2. SharedBy("Decode", Plus(by, r, v))'
    BY <1>1, <1>2, <2>1, SharedKept
  <2> QED
    BY <2>2
<1> QED
  BY <1>3, <1>4, <1>5 DEF BaseInv

LEMMA BaseStays ==
    ASSUME BaseInv, UNCHANGED baselineVars
    PROVE  BaseInv'
<1>1. /\ requests' = requests /\ served' = served /\ calls' = calls
      /\ prefill_busy_until' = prefill_busy_until
      /\ decode_busy_until' = decode_busy_until
  BY DEF baselineVars
<1>2. Served' = Served /\ Baseline!ToServe' = Baseline!ToServe
  BY <1>1 DEF Served, Baseline!ToServe
<1>3. \A stage : /\ BeginOf(stage)' = BeginOf(stage) /\ EndOf(stage)' = EndOf(stage)
                 /\ BusyOf(stage)' = BusyOf(stage)
  BY <1>1, <1>2 DEF BeginOf, EndOf, BusyOf
<1>4. BaseTypes'
  BY <1>1, <1>2, <1>3 DEF BaseInv, BaseTypes, Baseline!Sooner
<1>5. Pressing' /\ PrefillsInOrder'
  BY <1>1, <1>2 DEF BaseInv, Pressing, Arrival, PrefillsInOrder,
                    Baseline!PrefillsInOrder, Baseline!Sooner
<1>6. ASSUME NEW by, NEW stage, SharedBy(stage, by) PROVE SharedBy(stage, by)'
  BY <1>2, <1>3, <1>6 DEF SharedBy
<1>7. ASSUME NEW by, Diligent(by) PROVE Diligent(by)'
  BY <1>1, <1>2, <1>7 DEF Diligent, Arrival, WorksOn
<1>8. \E by : (SharedBy("Prefill", by) /\ Diligent(by))'
  BY <1>6, <1>7 DEF BaseInv
<1>9. \E by : SharedBy("Decode", by)'
  BY <1>6 DEF BaseInv
<1> QED
  BY <1>4, <1>5, <1>8, <1>9 DEF BaseInv

LEMMA BaseKept == BaseInv /\ [Baseline!NRNext]_baselineVars => BaseInv'
<1> SUFFICES ASSUME BaseInv, [Baseline!NRNext]_baselineVars PROVE BaseInv'
  OBVIOUS
<1>1. CASE \E tr \in Traces : Baseline!Call(tr)
  BY <1>1, BaseCalled
<1>2. CASE \E r \in Request : Baseline!RunOne(r)
  BY <1>2, BaseServes
<1>3. CASE UNCHANGED baselineVars
  BY <1>3, BaseStays
<1> QED
  BY <1>1, <1>2, <1>3 DEF Baseline!NRNext

LEMMA BaseAlways == BothSpec => []BaseInv
<1>1. [BothNext]_<<vars, baselineVars>> => [Baseline!NRNext]_baselineVars
  BY DEF BothNext, StartBoth, ServeBaseline, ServeEventDriven, Baseline!NRNext,
         baselineVars
<1>2. BothInit => BaseInv
  BY BaseBegun DEF BothInit
<1> QED
  BY <1>1, <1>2, BaseKept, PTL DEF BothSpec

-----------------------------------------------------------------------------
(* What the invariant shows *)

LEMMA AtWorkPrefilling ==
    ASSUME NEW t
    PROVE  AtWorkAt(Served, BeginOf("Prefill"), EndOf("Prefill"), t)
             = {s \in DOMAIN served : /\ served[s].prefill_start_ns <= t
                                      /\ t < served[s].prefill_done_ns}
BY DEF AtWorkAt, BeginOf, EndOf, Served

LEMMA AtWorkDecoding ==
    ASSUME NEW t
    PROVE  AtWorkAt(Served, BeginOf("Decode"), EndOf("Decode"), t)
             = {s \in DOMAIN served : /\ served[s].decode_start_ns <= t
                                      /\ t < served[s].finish_ns}
BY DEF AtWorkAt, BeginOf, EndOf, Served

\* The size of a set is the same for the baseline.
LEMMA SameCardinality == ASSUME NEW S PROVE Baseline!Cardinality(S) = Cardinality(S)
BY DEF Baseline!Cardinality, Cardinality

LEMMA WithinWorkersHolds == ASSUME BaseInv PROVE WithinWorkers
<1> SUFFICES ASSUME NEW r \in DOMAIN served
             PROVE  /\ Cardinality({s \in DOMAIN served :
                          /\ served[s].prefill_start_ns <= served[r].prefill_start_ns
                          /\ served[r].prefill_start_ns < served[s].prefill_done_ns})
                         <= Cardinality(DOMAIN prefill_busy_until)
                    /\ Cardinality({s \in DOMAIN served :
                          /\ served[s].decode_start_ns <= served[r].decode_start_ns
                          /\ served[r].decode_start_ns < served[s].finish_ns})
                         <= Cardinality(DOMAIN decode_busy_until)
  BY SameCardinality DEF WithinWorkers, Baseline!WithinWorkers
<1>1. /\ r \in Served /\ BaseTypes /\ Vector(prefill_busy_until) /\ Vector(decode_busy_until)
      /\ BusyOf("Prefill") = prefill_busy_until /\ BusyOf("Decode") = decode_busy_until
  BY DEF BaseInv, BaseTypes, BusyOf, Stage, Served
<1>2. /\ BeginOf("Prefill") \in [Served -> Nat] /\ EndOf("Prefill") \in [Served -> Nat]
      /\ BeginOf("Decode") \in [Served -> Nat] /\ EndOf("Decode") \in [Served -> Nat]
      /\ served[r].prefill_start_ns \in Nat /\ served[r].decode_start_ns \in Nat
  BY <1>1, BaseFunctions DEF Stage, Report
<1>3. PICK by : SharedBy("Prefill", by)
  BY DEF BaseInv
<1>4. Cardinality(AtWorkAt(Served, BeginOf("Prefill"), EndOf("Prefill"),
                           served[r].prefill_start_ns))
        <= Cardinality(DOMAIN prefill_busy_until)
  BY <1>1, <1>2, <1>3, NoMoreThanWorkers DEF SharedBy
<1>5. PICK on : SharedBy("Decode", on)
  BY DEF BaseInv
<1>6. Cardinality(AtWorkAt(Served, BeginOf("Decode"), EndOf("Decode"),
                           served[r].decode_start_ns))
        <= Cardinality(DOMAIN decode_busy_until)
  BY <1>1, <1>2, <1>5, NoMoreThanWorkers DEF SharedBy
<1> QED
  BY <1>4, <1>6, AtWorkPrefilling, AtWorkDecoding

LEMMA PrefillPromptHolds == ASSUME BaseInv PROVE PrefillPrompt
<1> SUFFICES ASSUME calls = 1, NEW r \in DOMAIN served,
                    NEW t \in requests[r].arrival_ns .. (served[r].prefill_start_ns - 1)
             PROVE  Cardinality({s \in DOMAIN served :
                        /\ served[s].prefill_start_ns <= t
                        /\ t < served[s].prefill_done_ns})
                      = Cardinality(DOMAIN prefill_busy_until)
  BY SameCardinality DEF PrefillPrompt, Baseline!PrefillPrompt
<1>1. /\ r \in Served /\ BaseTypes /\ Vector(prefill_busy_until)
      /\ BusyOf("Prefill") = prefill_busy_until
  BY DEF BaseInv, BaseTypes, BusyOf, Stage, Served
<1>2. /\ BeginOf("Prefill") \in [Served -> Nat] /\ EndOf("Prefill") \in [Served -> Nat]
      /\ served[r].prefill_start_ns \in Nat /\ Arrival(r) \in Nat
  BY <1>1, BaseFunctions DEF Stage, Report
<1>3. t \in Nat /\ Arrival(r) <= t /\ t < served[r].prefill_start_ns
  BY <1>2 DEF Arrival
<1>4. PICK by : SharedBy("Prefill", by) /\ Diligent(by)
  BY DEF BaseInv
<1>5. calls <= 1
  OBVIOUS
<1> DEFINE A == AtWorkAt(Served, BeginOf("Prefill"), EndOf("Prefill"), t)
<1>6. ASSUME NEW w \in DOMAIN prefill_busy_until PROVE \E s \in A : by[s] = w
  <2>1. PICK s \in Served : WorksOn(by, s, w, t)
    BY <1>1, <1>3, <1>4, <1>5 DEF Diligent
  <2>2. s \in A /\ by[s] = w
    BY <2>1, AtWorkPrefilling DEF WorksOn, Served
  <2> QED
    BY <2>2
<1>7. Cardinality(A) = Cardinality(DOMAIN prefill_busy_until)
  BY <1>1, <1>2, <1>3, <1>4, <1>6, NoMoreThanWorkers DEF SharedBy
<1> QED
  BY <1>7, AtWorkPrefilling

\* Whatever the batches and the number of workers, the two vectors of busy times
\* of NoReuseRunner keep at most as many prefills and decodes under way at one
\* instant as there are workers, over all the results of a run.
THEOREM NeverMoreWorkThanWorkers == BothSpec => []WithinWorkers
<1>1. BaseInv => WithinWorkers
  BY WithinWorkersHolds
<1> QED
  BY <1>1, BaseAlways, PTL

\* NoReuseRunner begins the prefills in the order in which the requests arrive.
THEOREM FirstComeFirstPrefilled == BothSpec => []PrefillsInOrder
<1>1. BaseInv => PrefillsInOrder
  BY DEF BaseInv
<1> QED
  BY <1>1, BaseAlways, PTL

\* In the first run of a NoReuseRunner every prefill worker is at work at each
\* instant between the arrival of a request and the start of its prefill.
THEOREM NoWorkerIdlesWhileOneWaits == BothSpec => []PrefillPrompt
<1>1. BaseInv => PrefillPrompt
  BY PrefillPromptHolds
<1> QED
  BY <1>1, BaseAlways, PTL

-----------------------------------------------------------------------------
(* One worker that serves first come, first served *)

\* A line is the account of a stage with one worker: who comes before whom, and
\* when each request is ready for the worker, begins and ends.

\* Everybody begins when it is ready, or when one that came before it ends.
Chained(S, L) ==
    /\ \A s \in S : /\ L.ready[s] \in Nat /\ L.begin[s] \in Nat /\ L.end[s] \in Nat
                    /\ L.ready[s] <= L.begin[s] /\ L.begin[s] <= L.end[s]
    /\ \A s, u \in S : <<s, u>> \in L.order => L.end[s] <= L.begin[u]
    /\ \A u \in S : \/ L.begin[u] = L.ready[u]
                    \/ \E s \in S : <<s, u>> \in L.order /\ L.end[s] = L.begin[u]

\* Nobody is ready, or ends, when another one ends.
Untied(S, L) ==
    \A r, s \in S : r # s => L.end[s] # L.ready[r] /\ L.end[s] # L.end[r]

GoodLine(L) == Orders(L.order, Request) /\ Chained(Request, L) /\ Untied(Request, L)

\* A stage as the event loop runs it keeps to the line L: the requests C have
\* yet to come, those of q wait, A is the one at work, on a GPU that is busy
\* until b, and the others have ended.
InStep(L, C, q, A, b, now) ==
    /\ q \in Seq(Request) /\ C \subseteq Request /\ A \subseteq Request
    /\ b \in Nat /\ now \in Nat
    /\ Range(q) \cap C = {} /\ A \cap (C \cup Range(q)) = {}
    /\ \A i, j \in DOMAIN q : i < j => <<q[i], q[j]>> \in L.order
    /\ \A u, s \in Request : <<u, s>> \in L.order =>
          /\ u \in C => s \in C
          /\ u \in C \cup Range(q) => s \in C \cup Range(q)
    /\ \A s \in Range(q) : L.ready[s] <= now
    /\ \A s \in A : b = L.end[s] /\ now <= L.end[s]
    /\ \A s, u \in A : s = u
    /\ \A s \in Request \ (C \cup Range(q) \cup A) : L.end[s] <= now
    /\ A = {} => q = <<>> /\ b <= now

\* Time may pass until the one at work ends: the stage stays in step.
LEMMA InStepLater ==
    ASSUME NEW L, Chained(Request, L), NEW C, NEW q, NEW A, NEW b, NEW now,
           InStep(L, C, q, A, b, now),
           NEW t \in Nat, now <= t, \A s \in A : t <= L.end[s]
    PROVE  InStep(L, C, q, A, b, t)
<1>1. \A s \in Request : L.ready[s] \in Nat /\ L.end[s] \in Nat
  BY DEF Chained
<1>2. Range(q) \subseteq Request /\ now \in Nat /\ b \in Nat
  BY DEF InStep, Range
<1>3. \A s \in Range(q) : L.ready[s] <= t
  BY <1>1, <1>2 DEF InStep
<1>4. \A s \in Request \ (C \cup Range(q) \cup A) : L.end[s] <= t
  BY <1>1, <1>2 DEF InStep
<1> QED
  BY <1>2, <1>3, <1>4 DEF InStep

\* r is the first to come, and is ready now.
Comes(L, C, r, now) ==
    r \in C /\ L.ready[r] = now /\ \A u \in C : <<u, r>> \notin L.order

StartsNow(L, C, q, A, r, now) ==
    /\ q = <<>> /\ A = {} /\ L.begin[r] = now
    /\ InStep(L, C \ {r}, <<>>, {r}, L.end[r], now)

\* One that is ready takes a worker that is free.
LEMMA EntersAtOnce ==
    ASSUME NEW L, GoodLine(L), NEW C, NEW q, NEW A, NEW b, NEW t,
           InStep(L, C, q, A, b, t), NEW r, Comes(L, C, r, t), b <= t
    PROVE  StartsNow(L, C, q, A, r, t)
<1>0. r \in C /\ L.ready[r] = t /\ \A u \in C : <<u, r>> \notin L.order
  BY DEF Comes
<1>1. /\ \A s \in Request : /\ L.ready[s] \in Nat /\ L.begin[s] \in Nat
                            /\ L.end[s] \in Nat
                            /\ L.ready[s] <= L.begin[s] /\ L.begin[s] <= L.end[s]
      /\ C \subseteq Request /\ A \subseteq Request /\ t \in Nat /\ b \in Nat /\ r \in Request
  BY <1>0 DEF GoodLine, Chained, InStep
<1>2. A = {}
  <2> SUFFICES ASSUME NEW s \in A PROVE FALSE
    OBVIOUS
  <2>1. b = L.end[s] /\ t <= L.end[s] /\ s # r /\ s \in Request
    BY <1>0, <1>1 DEF InStep
  <2>2. L.end[s] = t
    BY <1>0, <1>1, <2>1
  <2> QED
    BY <1>0, <1>1, <2>1, <2>2 DEF GoodLine, Untied
<1>3. q = <<>> /\ Range(q) = {}
  BY <1>2 DEF InStep, Range
<1>4. L.begin[r] = t
  <2>1. ASSUME NEW s \in Request, <<s, r>> \in L.order, L.end[s] = L.begin[r]
        PROVE  L.begin[r] <= t
    BY <1>0, <1>2, <1>3, <2>1 DEF InStep
  <2>2. \/ L.begin[r] = L.ready[r]
        \/ \E s \in Request : <<s, r>> \in L.order /\ L.end[s] = L.begin[r]
    BY <1>1 DEF GoodLine, Chained
  <2>3. L.begin[r] \in Nat /\ t <= L.begin[r]
    BY <1>0, <1>1
  <2>4. L.begin[r] = L.ready[r] \/ L.begin[r] <= t
    BY <2>1, <2>2
  <2> QED
    BY <1>0, <1>1, <2>3, <2>4
<1>5. \A u, s \in Request : <<u, s>> \in L.order => (u \in C \ {r} => s \in C \ {r})
  BY <1>0 DEF InStep
<1>6. Range(<<>>) = {} /\ <<>> \in Seq(Request) /\ DOMAIN <<>> = {}
  BY DEF Range
<1>7. \A s \in Request \ ((C \ {r}) \cup {} \cup {r}) : L.end[s] <= t
  BY <1>2, <1>3 DEF InStep
<1>8. t <= L.end[r]
  BY <1>1, <1>4
<1> QED
  BY <1>1, <1>2, <1>3, <1>4, <1>5, <1>6, <1>7, <1>8 DEF InStep, StartsNow

\* One that is ready when the worker is not free waits behind the others.
LEMMA EntersQueue ==
    ASSUME NEW L, GoodLine(L), NEW C, NEW q, NEW A, NEW b, NEW t,
           InStep(L, C, q, A, b, t), NEW r, Comes(L, C, r, t), b > t
    PROVE  /\ InStep(L, C \ {r}, Append(q, r), A, b, t)
           /\ Range(Append(q, r)) = Range(q) \cup {r}
<1>0. r \in C /\ L.ready[r] = t /\ \A u \in C : <<u, r>> \notin L.order
  BY DEF Comes
<1>1. /\ q \in Seq(Request) /\ C \subseteq Request /\ A \subseteq Request
      /\ t \in Nat /\ b \in Nat /\ r \in Request /\ Range(q) \cap C = {}
      /\ A \cap (C \cup Range(q)) = {}
  BY <1>0 DEF InStep
<1>2. /\ Append(q, r) \in Seq(Request)
      /\ DOMAIN q = 1 .. Len(q) /\ Len(q) \in Nat
      /\ DOMAIN Append(q, r) = 1 .. (Len(q) + 1)
      /\ \A i \in DOMAIN q : Append(q, r)[i] = q[i]
      /\ Append(q, r)[Len(q) + 1] = r
  BY <1>0, <1>1, AppendParts
<1>3. Range(Append(q, r)) = Range(q) \cup {r}
  BY <1>0, <1>2 DEF Range
<1>4. A # {}
  BY <1>0, <1>1 DEF InStep
<1>5. ASSUME NEW i \in DOMAIN q PROVE <<q[i], r>> \in L.order
  <2>1. q[i] \in Range(q) /\ q[i] \in Request
    BY <1>0, <1>1 DEF Range
  <2>2. q[i] # r /\ q[i] \notin C
    BY <1>0, <1>1, <2>1
  <2>3. <<r, q[i]>> \notin L.order
    BY <1>0, <1>1, <2>1, <2>2 DEF InStep
  <2> QED
    BY <1>0, <1>1, <2>1, <2>2, <2>3 DEF GoodLine, Orders
<1>6. \A i, j \in DOMAIN Append(q, r) : i < j =>
         <<Append(q, r)[i], Append(q, r)[j]>> \in L.order
  <2> SUFFICES ASSUME NEW i \in 1 .. (Len(q) + 1), NEW j \in 1 .. (Len(q) + 1), i < j
               PROVE  <<Append(q, r)[i], Append(q, r)[j]>> \in L.order
    BY <1>0, <1>2
  <2>1. i \in DOMAIN q
    BY <1>0, <1>2
  <2>2. CASE j = Len(q) + 1
    BY <1>0, <1>2, <1>5, <2>1, <2>2
  <2>3. CASE j # Len(q) + 1
    <3>1. j \in DOMAIN q
      BY <1>0, <1>2, <2>3
    <3> QED
      BY <1>0, <1>2, <2>1, <3>1 DEF InStep
  <2> QED
    BY <2>2, <2>3
<1>7. (C \ {r}) \cup Range(Append(q, r)) = C \cup Range(q)
  BY <1>0, <1>3
<1>8. \A u, s \in Request : <<u, s>> \in L.order =>
          /\ u \in C \ {r} => s \in C \ {r}
          /\ u \in C \cup Range(q) => s \in C \cup Range(q)
  BY <1>0 DEF InStep
<1>9. Range(Append(q, r)) \cap (C \ {r}) = {}
  BY <1>0, <1>1, <1>3
<1>10. \A s \in Range(Append(q, r)) : L.ready[s] <= t
  BY <1>0, <1>1, <1>3 DEF InStep
<1>11. /\ \A s \in A : b = L.end[s] /\ t <= L.end[s]
       /\ \A s, u \in A : s = u
       /\ \A s \in Request \ (C \cup Range(q) \cup A) : L.end[s] <= t
  BY <1>0 DEF InStep
<1> QED
  BY <1>0, <1>1, <1>2, <1>3, <1>4, <1>6, <1>7, <1>8, <1>9, <1>10, <1>11 DEF InStep

\* The worker is free when the one at work ends, if nobody waits.
LEMMA EndsIdle ==
    ASSUME NEW L, NEW C, NEW A, NEW b, NEW t, InStep(L, C, <<>>, A, b, t),
           NEW r \in A, L.end[r] = t
    PROVE  InStep(L, C, <<>>, {}, t, t)
<1>1. \A s \in A : s = r
  BY DEF InStep
<1>2. t \in Nat
  BY DEF InStep
<1>3. \A s \in Request \ (C \cup Range(<<>>) \cup {}) : L.end[s] <= t
  BY <1>1, <1>2 DEF InStep
<1> QED
  BY <1>2, <1>3 DEF InStep

\* The head of q takes the worker now.
HeadStarts(L, C, q, now) ==
    LET h == q[1]
        w == SubSeq(q, 2, Len(q))
    IN  /\ L.begin[h] = now /\ now < L.end[h]
        /\ InStep(L, C, w, {h}, L.end[h], now)
        /\ Range(q) = Range(w) \cup {h}

\* The head of the queue takes it, if somebody waits.
LEMMA EndsNext ==
    ASSUME NEW L, GoodLine(L), NEW C, NEW q, NEW A, NEW b, NEW t,
           InStep(L, C, q, A, b, t), NEW r \in A, L.end[r] = t, q # <<>>
    PROVE  HeadStarts(L, C, q, t)
<1> DEFINE h == q[1]
           w == SubSeq(q, 2, Len(q))
<1>1. /\ q \in Seq(Request) /\ C \subseteq Request /\ A \subseteq Request
      /\ t \in Nat /\ b \in Nat /\ r \in Request /\ Range(q) \cap C = {}
      /\ A \cap (C \cup Range(q)) = {}
  BY DEF InStep
<1>2. /\ \A s \in Request : /\ L.ready[s] \in Nat /\ L.begin[s] \in Nat
                            /\ L.end[s] \in Nat
                            /\ L.ready[s] <= L.begin[s] /\ L.begin[s] <= L.end[s]
      /\ Orders(L.order, Request)
  BY DEF GoodLine, Chained
<1>3. /\ Len(q) \in Nat /\ Len(q) >= 1 /\ DOMAIN q = 1 .. Len(q)
      /\ h \in Request /\ h \in Range(q)
  BY <1>1 DEF Range
<1>4. /\ w \in Seq(Request) /\ DOMAIN w = 1 .. (Len(q) - 1)
      /\ \A i \in 1 .. (Len(q) - 1) : w[i] = q[1 + i]
  <2>1. 1 \in 0 .. Len(q) /\ 1 + 1 = 2
    BY <1>3
  <2> QED
    BY <1>1, <2>1, SubSeqParts
<1> HIDE DEF w
<1>5. ASSUME NEW i \in 1 .. (Len(q) - 1) PROVE <<h, w[i]>> \in L.order
  <2>1. 1 \in DOMAIN q /\ 1 + i \in DOMAIN q /\ 1 < 1 + i
    BY <1>3
  <2> QED
    BY <1>4, <2>1 DEF InStep
<1>6. Range(q) = Range(w) \cup {h}
  <2>1. ASSUME NEW i \in DOMAIN q PROVE q[i] \in Range(w) \cup {h}
    <3>1. CASE i = 1
      BY <3>1
    <3>2. CASE i # 1
      <4>1. i - 1 \in 1 .. (Len(q) - 1) /\ 1 + (i - 1) = i
        BY <1>3, <3>2
      <4> QED
        BY <1>4, <4>1 DEF Range
    <3> QED
      BY <3>1, <3>2
  <2>2. ASSUME NEW i \in DOMAIN w PROVE w[i] \in Range(q)
    <3>1. 1 + i \in DOMAIN q /\ w[i] = q[1 + i]
      BY <1>3, <1>4
    <3> QED
      BY <3>1 DEF Range
  <2>3. Range(w) \subseteq Range(q)
    BY <2>2 DEF Range
  <2>4. Range(q) \subseteq Range(w) \cup {h}
    BY <2>1 DEF Range
  <2> QED
    BY <1>3, <2>3, <2>4
<1>7. h \notin Range(w)
  <2> SUFFICES ASSUME NEW i \in DOMAIN w, w[i] = h PROVE FALSE
    BY DEF Range
  <2>1. <<h, h>> \in L.order
    BY <1>4, <1>5
  <2> QED
    BY <1>2, <1>3, <2>1 DEF Orders
<1>8. \A s \in A : s = r
  BY DEF InStep
<1>9. \A u, s \in Request : <<u, s>> \in L.order =>
          /\ u \in C => s \in C
          /\ u \in C \cup Range(q) => s \in C \cup Range(q)
  BY DEF InStep
<1>10. <<r, h>> \in L.order
  <2>1. r # h /\ r \notin C \cup Range(q)
    BY <1>1, <1>3
  <2>2. <<h, r>> \notin L.order
    BY <1>1, <1>3, <1>9, <2>1
  <2> QED
    BY <1>1, <1>2, <1>3, <2>1, <2>2 DEF Orders
<1>11. t <= L.begin[h]
  BY <1>1, <1>3, <1>10 DEF GoodLine, Chained
<1>12. ASSUME NEW s \in Request, <<s, h>> \in L.order PROVE L.end[s] <= t
  <2>1. s \notin C
    BY <1>1, <1>3, <1>9, <1>12
  <2>2. s # h
    BY <1>2, <1>3, <1>12 DEF Orders
  <2>3. s \notin Range(w)
    <3> SUFFICES ASSUME NEW i \in DOMAIN w, w[i] = s PROVE FALSE
      BY DEF Range
    <3>1. <<h, s>> \in L.order
      BY <1>4, <1>5
    <3>2. <<h, h>> \in L.order
      BY <1>2, <1>3, <1>12, <3>1 DEF Orders
    <3> QED
      BY <1>2, <1>3, <3>2 DEF Orders
  <2>4. CASE s \in A
    BY <1>1, <1>8, <2>4
  <2>5. CASE s \notin A
    BY <1>6, <2>1, <2>2, <2>3, <2>5 DEF InStep
  <2> QED
    BY <2>4, <2>5
<1>13. L.begin[h] = t
  <2>1. CASE L.begin[h] = L.ready[h]
    <3>1. L.ready[h] <= t
      BY <1>3 DEF InStep
    <3> QED
      BY <1>1, <1>2, <1>3, <1>11, <2>1, <3>1
  <2>2. CASE \E s \in Request : <<s, h>> \in L.order /\ L.end[s] = L.begin[h]
    BY <1>1, <1>2, <1>3, <1>11, <1>12, <2>2
  <2> QED
    BY <1>3, <2>1, <2>2 DEF GoodLine, Chained
<1>14. t < L.end[h]
  <2>1. L.end[h] # L.end[r]
    BY <1>1, <1>3 DEF GoodLine, Untied
  <2> QED
    BY <1>1, <1>2, <1>3, <1>13, <2>1
<1>15. \A i, j \in DOMAIN w : i < j => <<w[i], w[j]>> \in L.order
  <2> SUFFICES ASSUME NEW i \in DOMAIN w, NEW j \in DOMAIN w, i < j
               PROVE  <<w[i], w[j]>> \in L.order
    OBVIOUS
  <2>1. /\ 1 + i \in DOMAIN q /\ 1 + j \in DOMAIN q /\ 1 + i < 1 + j
        /\ w[i] = q[1 + i] /\ w[j] = q[1 + j]
    BY <1>3, <1>4
  <2> QED
    BY <2>1 DEF InStep
<1>16. \A u, s \in Request : <<u, s>> \in L.order =>
          (u \in C \cup Range(w) => s \in C \cup Range(w))
  <2> SUFFICES ASSUME NEW u \in Request, NEW s \in Request, <<u, s>> \in L.order,
                      u \in C \cup Range(w), s = h
               PROVE  FALSE
    BY <1>6, <1>9
  <2>1. u \notin C
    BY <1>1, <1>3, <1>9
  <2>2. PICK i \in DOMAIN w : w[i] = u
    BY <2>1 DEF Range
  <2>3. <<h, u>> \in L.order
    BY <1>4, <1>5, <2>2
  <2>4. <<h, h>> \in L.order
    BY <1>2, <1>3, <2>3 DEF Orders
  <2> QED
    BY <1>2, <1>3, <2>4 DEF Orders
<1>17. /\ \A s \in Range(w) : L.ready[s] <= t
       /\ \A s \in Request \ (C \cup Range(w) \cup {h}) : L.end[s] <= t
  <2>1. \A s \in Range(w) : L.ready[s] <= t
    BY <1>6 DEF InStep
  <2>2. ASSUME NEW s \in Request \ (C \cup Range(w) \cup {h}) PROVE L.end[s] <= t
    <3>1. CASE s \in A
      BY <1>1, <1>8, <3>1
    <3>2. CASE s \notin A
      BY <1>6, <3>2 DEF InStep
    <3> QED
      BY <3>1, <3>2
  <2> QED
    BY <2>1, <2>2
<1>18. /\ h \notin C /\ Range(w) \cap C = {} /\ {h} \cap (C \cup Range(w)) = {}
       /\ L.end[h] \in Nat /\ t <= L.end[h]
  BY <1>1, <1>2, <1>3, <1>6, <1>7, <1>14
<1>19. InStep(L, C, w, {h}, L.end[h], t)
  BY <1>1, <1>3, <1>4, <1>9, <1>15, <1>16, <1>17, <1>18 DEF InStep
<1> QED
  BY <1>6, <1>13, <1>14, <1>19 DEF w, HeadStarts

\* Whoever waits in a stage in step waits for a GPU that is busy.
LEMMA NobodyToStart ==
    ASSUME NEW L, Chained(Request, L), NEW C, NEW q, NEW A, NEW b, NEW t,
           InStep(L, C, q, A, b, t), \A s \in A : L.end[s] # t
    PROVE  q = <<>> \/ b > t
<1> SUFFICES ASSUME q # <<>> PROVE b > t
  OBVIOUS
<1>1. PICK s \in A : TRUE
  BY DEF InStep
<1>2. b = L.end[s] /\ t <= L.end[s] /\ L.end[s] # t /\ L.end[s] \in Nat /\ t \in Nat
  BY DEF InStep, Chained
<1> QED
  BY <1>2

-----------------------------------------------------------------------------
(* Handlers where one GPU serves a stage *)

\* g is the GPU for the stage.
Sole(g, stage) ==
    /\ g \in Gpu /\ Serves(g, stage)
    /\ \A h \in Gpu : Serves(h, stage) => h = g

WorkOf(p, now, stage, r, g) ==
    [time_ns |-> now + Duration(p, stage, r),
     kind    |-> [tag |-> Done(stage), request_id |-> r, gpu |-> g]]

\* q is p when r has been started on g.
OneStarted(q, p, now, stage, r, g) ==
    /\ q.busy_until = [p.busy_until EXCEPT ![g] = now + Duration(p, stage, r)]
    /\ q.in_flight = [p.in_flight EXCEPT ![r] = Stamped(p, now, stage, r)]
    /\ q.events = Append(p.events, WorkOf(p, now, stage, r, g))

\* q is p, as far as the next state is concerned.
NothingDone(q, p) ==
    /\ q.busy_until = p.busy_until /\ q.in_flight = p.in_flight
    /\ q.waiting = p.waiting /\ q.events = p.events

\* The only GPU of a stage is found idle exactly when its busy time has passed.
LEMMA SoleIdle ==
    ASSUME NEW g, NEW stage, Sole(g, stage), NEW busy \in [Gpu -> Nat], NEW now \in Nat
    PROVE  /\ busy[g] <= now => FindIdle(busy, now, stage) = {g}
           /\ busy[g] > now => FindIdle(busy, now, stage) = {}
<1>1. g \in Gpu /\ busy[g] \in Nat
  BY DEF Sole
<1>2. ASSUME busy[g] <= now PROVE FindIdle(busy, now, stage) = {g}
  <2>1. Idle(busy, now, stage) = {g}
    BY <1>2 DEF Sole, Idle
  <2>2. g <= g /\ busy[g] = busy[g]
    BY <1>1 DEF Gpu
  <2> QED
    BY <2>1, <2>2 DEF FindIdle
<1>3. ASSUME busy[g] > now PROVE FindIdle(busy, now, stage) = {}
  <2>1. Idle(busy, now, stage) = {}
    BY <1>1, <1>3 DEF Sole, Idle
  <2> QED
    BY <2>1 DEF FindIdle
<1> QED
  BY <1>2, <1>3

\* What Started does with one request and one GPU.
LEMMA StartedOne ==
    ASSUME NEW tiers, NEW p \in PoolType(tiers), NEW now, NEW stage \in Stage,
           NEW rs \in Seq(Request), NEW gs \in Seq(Gpu),
           Len(rs) = 1, Len(gs) = 1, rs[1] \in DOMAIN p.in_flight
    PROVE  OneStarted(Started(p, now, stage, rs, gs), p, now, stage, rs[1], gs[1])
<1> DEFINE r == rs[1]
           g == gs[1]
           q == Started(p, now, stage, rs, gs)
<1>1. /\ p.busy_until \in [Gpu -> Nat] /\ p.in_flight \in Flights(tiers)
      /\ p.events \in Seq(Work)
      /\ DOMAIN rs = {1} /\ 1 .. 1 = {1} /\ 1 .. Len(gs) = {1}
  BY PoolParts
<1>2. /\ q.busy_until = BusyAfter(p, now, stage, rs, gs, 1)
      /\ q.in_flight = [s \in DOMAIN p.in_flight |->
                          IF \E i \in DOMAIN rs : rs[i] = s
                          THEN Stamped(p, now, stage, s) ELSE p.in_flight[s]]
      /\ q.events = p.events \o
                      [i \in 1 .. Len(gs) |->
                         [time_ns |-> now + Duration(p, stage, rs[i]),
                          kind    |-> [tag |-> Done(stage), request_id |-> rs[i],
                                       gpu |-> gs[i]]]]
  BY DEF Started
<1> HIDE DEF q
<1>3. q.busy_until = [p.busy_until EXCEPT ![g] = now + Duration(p, stage, r)]
  <2> DEFINE b == q.busy_until
  <2>1. DOMAIN b = Gpu /\ b = [h \in Gpu |-> b[h]]
    BY <1>2 DEF BusyAfter
  <2>2. ASSUME NEW h \in Gpu
        PROVE  b[h] = IF h = g THEN now + Duration(p, stage, r) ELSE p.busy_until[h]
    <3>1. BusyRight(b, p, now, stage, rs, gs, 1, h)
      BY <1>2, BusyAfterGood
    <3> QED
      BY <1>1, <3>1 DEF BusyRight
  <2> HIDE DEF b
  <2>3. b = [h \in Gpu |-> IF h = g THEN now + Duration(p, stage, r) ELSE p.busy_until[h]]
    BY <2>1, <2>2
  <2> QED
    BY <1>1, <2>3 DEF b
<1>4. q.in_flight = [p.in_flight EXCEPT ![r] = Stamped(p, now, stage, r)]
  <2>1. \A s : (\E i \in DOMAIN rs : rs[i] = s) <=> s = r
    BY <1>1
  <2>2. p.in_flight = [s \in DOMAIN p.in_flight |-> p.in_flight[s]]
    BY <1>1 DEF Flights
  <2>3. q.in_flight = [s \in DOMAIN p.in_flight |->
                         IF s = r THEN Stamped(p, now, stage, s) ELSE p.in_flight[s]]
    BY <1>2, <2>1
  <2> QED
    BY <2>2, <2>3
<1>5. q.events = Append(p.events, WorkOf(p, now, stage, r, g))
  <2> DEFINE w == [i \in 1 .. Len(gs) |->
                     [time_ns |-> now + Duration(p, stage, rs[i]),
                      kind    |-> [tag |-> Done(stage), request_id |-> rs[i],
                                   gpu |-> gs[i]]]]
             x == WorkOf(p, now, stage, r, g)
  <2>1. w = [i \in {1} |-> x]
    BY <1>1 DEF WorkOf
  <2>2. q.events = p.events \o w
    BY <1>2
  <2>3. w = <<x>>
    BY <2>1
  <2> HIDE DEF w, x
  <2>4. q.events = p.events \o <<x>>
    BY <2>2, <2>3
  <2>5. p.events \o <<x>> = Append(p.events, x)
    BY <1>1
  <2> QED
    BY <2>4, <2>5 DEF x
<1> QED
  BY <1>3, <1>4, <1>5 DEF OneStarted, q

\* Started does nothing without a request and a GPU.
LEMMA StartedNone ==
    ASSUME NEW tiers, NEW p \in PoolType(tiers), NEW now, NEW stage \in Stage,
           NEW rs \in Seq(Request), NEW gs \in Seq(Gpu), Len(rs) = 0, Len(gs) = 0
    PROVE  NothingDone(Started(p, now, stage, rs, gs), p)
<1> DEFINE q == Started(p, now, stage, rs, gs)
<1>1. /\ p.busy_until \in [Gpu -> Nat] /\ p.in_flight \in Flights(tiers)
      /\ p.events \in Seq(Work)
      /\ DOMAIN rs = {} /\ 1 .. 0 = {} /\ 1 .. Len(gs) = {}
  BY PoolParts
<1>2. /\ q.busy_until = BusyAfter(p, now, stage, rs, gs, 0)
      /\ q.in_flight = [s \in DOMAIN p.in_flight |->
                          IF \E i \in DOMAIN rs : rs[i] = s
                          THEN Stamped(p, now, stage, s) ELSE p.in_flight[s]]
      /\ q.events = p.events \o
                      [i \in 1 .. Len(gs) |->
                         [time_ns |-> now + Duration(p, stage, rs[i]),
                          kind    |-> [tag |-> Done(stage), request_id |-> rs[i],
                                       gpu |-> gs[i]]]]
      /\ q.waiting = p.waiting
  BY DEF Started
<1> HIDE DEF q
<1>3. q.busy_until = p.busy_until
  <2>1. q.busy_until = [h \in Gpu |-> q.busy_until[h]]
    BY <1>2 DEF BusyAfter
  <2>2. ASSUME NEW h \in Gpu PROVE q.busy_until[h] = p.busy_until[h]
    <3>1. BusyRight(q.busy_until, p, now, stage, rs, gs, 0, h)
      BY <1>2, BusyAfterGood
    <3> QED
      BY <1>1, <3>1 DEF BusyRight
  <2> QED
    BY <1>1, <2>1, <2>2
<1>4. q.in_flight = p.in_flight
  <2>1. p.in_flight = [s \in DOMAIN p.in_flight |-> p.in_flight[s]]
    BY <1>1 DEF Flights
  <2>2. \A s : ~(\E i \in DOMAIN rs : rs[i] = s)
    BY <1>1
  <2> QED
    BY <1>2, <2>1, <2>2
<1>5. q.events = p.events
  <2> DEFINE w == [i \in 1 .. Len(gs) |->
                     [time_ns |-> now + Duration(p, stage, rs[i]),
                      kind    |-> [tag |-> Done(stage), request_id |-> rs[i],
                                   gpu |-> gs[i]]]]
  <2>1. DOMAIN w = {} /\ w = [i \in {} |-> 0]
    BY <1>1
  <2>2. w = <<>>
    BY <2>1
  <2> HIDE DEF w
  <2>3. p.events \o <<>> = p.events
    BY <1>1
  <2> QED
    BY <1>2, <2>2, <2>3 DEF w
<1> QED
  BY <1>2, <1>3, <1>4, <1>5 DEF NothingDone, q

\* start_prefill or start_decode at once, or the queue.
LEMMA SoleSend ==
    ASSUME NEW tiers, NEW p \in PoolType(tiers), NEW now \in Nat, NEW stage \in Stage,
           NEW g, Sole(g, stage), NEW r \in DOMAIN p.in_flight,
           NEW q, q = StartOrQueue(p, now, stage, r)
    PROVE  /\ p.busy_until[g] <= now =>
                OneStarted(q, p, now, stage, r, g) /\ q.waiting = p.waiting
           /\ p.busy_until[g] > now =>
                q = [p EXCEPT !.waiting[stage] = Append(@, r)]
<1>1. /\ p.busy_until \in [Gpu -> Nat] /\ r \in Request /\ g \in Gpu
  BY PoolParts DEF Sole
<1>2. CASE p.busy_until[g] <= now
  <2>1. FindIdle(p.busy_until, now, stage) = {g}
    BY <1>1, <1>2, SoleIdle
  <2>2. q = Started(p, now, stage, <<r>>, <<g>>)
    BY <2>1 DEF StartOrQueue
  <2>3. /\ <<r>> \in Seq(Request) /\ <<g>> \in Seq(Gpu) /\ Len(<<r>>) = 1 /\ Len(<<g>>) = 1
        /\ <<r>>[1] = r /\ <<g>>[1] = g
    BY <1>1
  <2>4. OneStarted(q, p, now, stage, r, g)
    BY <2>2, <2>3, StartedOne
  <2>5. q.waiting = p.waiting
    BY <2>2 DEF Started
  <2>6. p.busy_until[g] \in Nat
    BY <1>1
  <2> QED
    BY <1>2, <2>4, <2>5, <2>6
<1>3. CASE p.busy_until[g] > now
  <2>1. FindIdle(p.busy_until, now, stage) = {}
    BY <1>1, <1>3, SoleIdle
  <2>2. p.busy_until[g] \in Nat
    BY <1>1
  <2> QED
    BY <1>3, <2>1, <2>2 DEF StartOrQueue
<1>4. p.busy_until[g] \in Nat
  BY <1>1
<1> QED
  BY <1>2, <1>3, <1>4

\* try_assign_prefill or try_assign_decode: nothing, or the head of the queue.
LEMMA SoleTry ==
    ASSUME NEW tiers, NEW p \in PoolType(tiers), NEW now \in Nat, NEW stage \in Stage,
           NEW g, Sole(g, stage), NEW q \in TryAssign(p, now, stage),
           NEW w, w = p.waiting[stage], Range(w) \subseteq DOMAIN p.in_flight
    PROVE  /\ w = <<>> \/ p.busy_until[g] > now => NothingDone(q, p)
           /\ w # <<>> /\ p.busy_until[g] <= now
                /\ Duration(p, stage, w[1]) \in Nat \ {0} =>
                  /\ OneStarted(q, p, now, stage, w[1], g)
                  /\ q.waiting = [p.waiting EXCEPT ![stage] = SubSeq(w, 2, Len(w))]
<1>1. /\ p.busy_until \in [Gpu -> Nat] /\ g \in Gpu
      /\ p.waiting \in [Stage -> Seq(Request)] /\ w \in Seq(Request)
      /\ Len(w) \in Nat /\ p.busy_until[g] \in Nat
      /\ p.busy_until = [h \in Gpu |-> p.busy_until[h]]
  BY PoolParts DEF Sole
<1>2. PICK gs \in Assignments(p, now, stage) :
         q = Started([p EXCEPT !.waiting[stage] = SubSeq(@, Len(gs) + 1, Len(@))],
                     now, stage, SubSeq(p.waiting[stage], 1, Len(gs)), gs)
  BY DEF TryAssign
<1> DEFINE o == [p EXCEPT !.waiting[stage] = SubSeq(@, Len(gs) + 1, Len(@))]
           rs == SubSeq(w, 1, Len(gs))
           busy(n) == BusyAfter(p, now, stage, w, gs, n)
<1>3. /\ gs \in UNION {[1 .. n -> Gpu] : n \in 0 .. Len(w)}
      /\ \A i \in 1 .. Len(gs) : gs[i] \in FindIdle(busy(i - 1), now, stage)
      /\ Len(gs) < Len(w) => FindIdle(busy(Len(gs)), now, stage) = {}
  BY DEF Assignments
<1>4. gs \in Seq(Gpu) /\ Len(gs) \in 0 .. Len(w) /\ Len(gs) \in Nat
  <2>1. PICK n \in 0 .. Len(w) : gs \in [1 .. n -> Gpu]
    BY <1>3
  <2> QED
    BY <1>1, <2>1
<1>5. busy(0) = p.busy_until
  <2>1. ASSUME NEW h \in Gpu PROVE busy(0)[h] = p.busy_until[h]
    <3>1. BusyRight(busy(0), p, now, stage, w, gs, 0, h)
      BY BusyAfterGood
    <3> QED
      BY <3>1 DEF BusyRight
  <2>2. busy(0) = [h \in Gpu |-> busy(0)[h]]
    BY DEF BusyAfter
  <2> QED
    BY <1>1, <2>1, <2>2
<1>6. /\ rs \in Seq(Request) /\ Len(rs) = Len(gs)
      /\ \A i \in 1 .. Len(gs) : rs[i] = w[i]
      /\ Len(gs) = Len(w) => SubSeq(w, Len(gs) + 1, Len(w)) = <<>>
      /\ DOMAIN w = 1 .. Len(w)
  BY <1>1, <1>4, SubSeqParts
<1>7. /\ o \in PoolType(tiers) /\ o.busy_until = p.busy_until
      /\ o.in_flight = p.in_flight /\ o.events = p.events
      /\ o.waiting = [p.waiting EXCEPT ![stage] = SubSeq(w, Len(gs) + 1, Len(w))]
  <2>1. SubSeq(w, Len(gs) + 1, Len(w)) \in Seq(Request)
    BY <1>1, <1>4, SubSeqParts
  <2> QED
    BY <1>1, <2>1 DEF PoolType
<1>8. q = Started(o, now, stage, rs, gs) /\ q.waiting = o.waiting
  BY <1>2 DEF Started
<1> HIDE DEF o, rs, busy
<1>9. ASSUME w = <<>> \/ p.busy_until[g] > now PROVE NothingDone(q, p)
  <2>1. Len(gs) = 0
    <3>1. CASE w = <<>>
      BY <1>4, <3>1
    <3>2. CASE p.busy_until[g] > now
      <4> SUFFICES ASSUME Len(gs) # 0 PROVE FALSE
        OBVIOUS
      <4>1. 1 \in 1 .. Len(gs) /\ 1 - 1 = 0
        BY <1>4
      <4>2. gs[1] \in FindIdle(p.busy_until, now, stage)
        BY <1>3, <1>5, <4>1
      <4> QED
        BY <1>1, <3>2, <4>2, SoleIdle
    <3> QED
      BY <1>9, <3>1, <3>2
  <2>2. NothingDone(q, o)
    BY <1>4, <1>6, <1>7, <1>8, <2>1, StartedNone
  <2>3. SubSeq(w, Len(gs) + 1, Len(w)) = w
    BY <1>1, <2>1
  <2>4. o.waiting = p.waiting
    BY <1>1, <1>7, <2>3
  <2> QED
    BY <1>7, <2>2, <2>4 DEF NothingDone
<1>10. ASSUME w # <<>>, p.busy_until[g] <= now, Duration(p, stage, w[1]) \in Nat \ {0}
       PROVE  /\ OneStarted(q, p, now, stage, w[1], g)
              /\ q.waiting = [p.waiting EXCEPT ![stage] = SubSeq(w, 2, Len(w))]
  <2>1. Len(w) >= 1
    BY <1>1, <1>10
  <2>2. Len(gs) # 0
    <3> SUFFICES ASSUME Len(gs) = 0 PROVE FALSE
      OBVIOUS
    <3>1. FindIdle(p.busy_until, now, stage) = {}
      BY <1>3, <1>4, <1>5, <2>1
    <3>2. FindIdle(p.busy_until, now, stage) = {g}
      BY <1>1, <1>10, SoleIdle
    <3> QED
      BY <3>1, <3>2
  <2>3. gs[1] = g
    <3>1. 1 \in 1 .. Len(gs) /\ 1 - 1 = 0
      BY <1>4, <2>2
    <3>2. gs[1] \in FindIdle(p.busy_until, now, stage)
      BY <1>3, <1>5, <3>1
    <3> QED
      BY <1>1, <1>10, <3>2, SoleIdle
  <2>4. Len(gs) = 1
    <3> SUFFICES ASSUME Len(gs) # 1 PROVE FALSE
      OBVIOUS
    <3>0. \A n \in Nat : n # 0 /\ n # 1 => 2 \in 1 .. n /\ 2 - 1 = 1
      OBVIOUS
    <3>1. 2 \in 1 .. Len(gs) /\ 2 - 1 = 1
      BY <1>4, <2>2, <3>0
    <3>2. gs[2] \in FindIdle(busy(1), now, stage)
      BY <1>3, <3>1
    <3>3. gs[2] \in Idle(busy(1), now, stage)
      BY <3>2 DEF FindIdle
    <3>4. gs[2] = g /\ busy(1)[g] <= now
      BY <3>3 DEF Idle, Sole
    <3>5. BusyRight(busy(1), p, now, stage, w, gs, 1, g)
      BY <1>1, BusyAfterGood DEF busy
    <3>6. 1 \in 1 .. 1 /\ \A i \in 1 .. 1 : i = 1
      OBVIOUS
    <3>7. busy(1)[g] = now + Duration(p, stage, w[1])
      BY <2>3, <3>5, <3>6 DEF BusyRight
    <3>8. ~(busy(1)[g] <= now)
      BY <1>10, <3>7
    <3> QED
      BY <3>4, <3>8
  <2>5. rs[1] = w[1] /\ w[1] \in Range(w)
    BY <1>6, <2>1, <2>4 DEF Range
  <2>6. rs[1] \in DOMAIN o.in_flight
    BY <1>7, <2>5
  <2>7. OneStarted(q, o, now, stage, w[1], g)
    BY <1>4, <1>6, <1>7, <1>8, <2>3, <2>4, <2>5, <2>6, StartedOne
  <2>8. /\ Duration(o, stage, w[1]) = Duration(p, stage, w[1])
        /\ Stamped(o, now, stage, w[1]) = Stamped(p, now, stage, w[1])
    BY <1>7 DEF Duration, Stamped, PrefillTokens
  <2>9. OneStarted(q, p, now, stage, w[1], g)
    BY <1>7, <2>7, <2>8 DEF OneStarted, WorkOf
  <2>10. q.waiting = [p.waiting EXCEPT ![stage] = SubSeq(w, 2, Len(w))]
    BY <1>7, <1>8, <2>4
  <2> QED
    BY <2>9, <2>10
<1> QED
  BY <1>9, <1>10

-----------------------------------------------------------------------------
(* The baseline's account of the two stages, and pools that keep to it *)

Earlier == {rs \in Request \X Request : Baseline!Sooner(rs[1], rs[2])}

ReadyOf(stage) ==
    [s \in Served |-> IF stage = "Prefill" THEN Arrival(s) ELSE served[s].prefill_done_ns]

Line(stage) ==
    [order |-> Earlier, ready |-> ReadyOf(stage), begin |-> BeginOf(stage),
     end |-> EndOf(stage)]

\* How long the baseline lets each stage take.
Lengths ==
    \A s \in Served :
        LET step == DecodeStepTime[requests[s].prompt_tokens]
        IN  /\ served[s].prefill_done_ns
                 = served[s].prefill_start_ns + PrefillTime[requests[s].prompt_tokens]
            /\ served[s].first_token_ns = served[s].decode_start_ns + step
            /\ served[s].finish_ns
                 = served[s].decode_start_ns + step * requests[s].output_tokens

\* The baseline has served the batch, and both stages are lines.
Comparable ==
    /\ Served = Request /\ served \in [Request -> Report] /\ Lengths
    /\ trace = requests /\ TraceOK
    /\ \A stage \in Stage : GoodLine(Line(stage))

\* The event loop and the baseline agree on a stage of r.
Agrees(x, stage, r) ==
    IF stage = "Prefill"
    THEN /\ x.prefill_start_ns = served[r].prefill_start_ns
         /\ x.prefill_done_ns = served[r].prefill_done_ns
    ELSE /\ x.decode_start_ns = served[r].decode_start_ns
         /\ x.first_token_ns = served[r].first_token_ns
         /\ x.finish_ns = served[r].finish_ns

\* The work of a stage that is pending, in Q or among the events of p.
WorksDue(p, Q, stage) == {w \in Q \cup Range(p.events) : w.kind.tag = Done(stage)}

WorkFor(stage, s, g) ==
    [time_ns |-> Line(stage).end[s],
     kind    |-> [tag |-> Done(stage), request_id |-> s, gpu |-> g]]

BegunAgree(p, stage, C) ==
    \A r \in DOMAIN p.in_flight \ (C \cup Range(p.waiting[stage])) :
        Agrees(p.in_flight[r], stage, r)

\* A stage of p, served by g, is in step with the baseline.
StageIn(p, Q, stage, g, C, A, now) ==
    /\ InStep(Line(stage), C, p.waiting[stage], A, p.busy_until[g], now)
    /\ BegunAgree(p, stage, C)
    /\ WorksDue(p, Q, stage) = {WorkFor(stage, s, g) : s \in A}

\* It was, until the request at work ended, and g was released.
StageEnds(p, Q, stage, g, C, A, now) ==
    /\ \E b : InStep(Line(stage), C, p.waiting[stage], A, b, now)
    /\ \E r \in A : Line(stage).end[r] = now
    /\ p.busy_until[g] = now
    /\ BegunAgree(p, stage, C)
    /\ WorksDue(p, Q, stage) = {}

Untouched(p) == \A r \in DOMAIN p.in_flight : p.in_flight[r].prefill_tokens = 0

\* q and p do not differ in the stage t, which h serves.
Aside(q, p, t, h) ==
    /\ q.waiting[t] = p.waiting[t]
    /\ q.busy_until[h] = p.busy_until[h]
    /\ DOMAIN q.in_flight = DOMAIN p.in_flight
    /\ \A r \in DOMAIN p.in_flight :
          Agrees(p.in_flight[r], t, r) => Agrees(q.in_flight[r], t, r)
    /\ \A Q : WorksDue(q, Q, t) = WorksDue(p, Q, t)

\* What leaves a stage aside leaves it in step.
LEMMA AsideKeeps ==
    ASSUME NEW p, NEW q, NEW t, NEW h, Aside(q, p, t, h),
           NEW Q, NEW C, NEW A, NEW now
    PROVE  /\ StageIn(p, Q, t, h, C, A, now) => StageIn(q, Q, t, h, C, A, now)
           /\ StageEnds(p, Q, t, h, C, A, now) => StageEnds(q, Q, t, h, C, A, now)
<1>1. BegunAgree(p, t, C) => BegunAgree(q, t, C)
  BY DEF Aside, BegunAgree
<1>2. /\ q.waiting[t] = p.waiting[t] /\ q.busy_until[h] = p.busy_until[h]
      /\ WorksDue(q, Q, t) = WorksDue(p, Q, t)
  BY DEF Aside
<1> QED
  BY <1>1, <1>2 DEF StageIn, StageEnds

\* The four parts of a line, for rewriting.
LEMMA LineParts ==
    ASSUME NEW stage
    PROVE  /\ Line(stage).order = Earlier /\ Line(stage).ready = ReadyOf(stage)
           /\ Line(stage).begin = BeginOf(stage) /\ Line(stage).end = EndOf(stage)
BY DEF Line

\* A request that is started when the baseline starts it is in step.
LEMMA StampsAgree ==
    ASSUME Comparable, NEW p \in PoolType({None}), Untouched(p), NEW now \in Nat,
           NEW stage \in Stage, NEW r \in DOMAIN p.in_flight, Line(stage).begin[r] = now
    PROVE  /\ Duration(p, stage, r) \in Nat
           /\ now + Duration(p, stage, r) = Line(stage).end[r]
           /\ Agrees(Stamped(p, now, stage, r), stage, r)
           /\ Stamped(p, now, stage, r).prefill_tokens = 0
           /\ \A t \in Stage \ {stage} :
                 Agrees(p.in_flight[r], t, r) => Agrees(Stamped(p, now, stage, r), t, r)
<1> DEFINE u == p.in_flight[r]
           d == Duration(p, stage, r)
           x == Stamped(p, now, stage, r)
<1>1. /\ r \in Request /\ u \in FlightOf({None}) /\ u.prefill_tokens = 0
      /\ r \in Served /\ served[r] \in Report /\ TraceOK
  BY PoolParts DEF Comparable, Untouched
<1>2. PrefillTokens(p, r) = requests[r].prompt_tokens
  BY <1>1 DEF PrefillTokens, Comparable
<1>3. StepTime(r) = DecodeStepTime[requests[r].prompt_tokens]
  BY DEF StepTime, Comparable
<1>4. d \in Nat
  BY <1>1, StampedGood
<1>5. CASE stage = "Prefill"
  <2>1. Line(stage).begin[r] = served[r].prefill_start_ns
        /\ Line(stage).end[r] = served[r].prefill_done_ns
    <3>1. BeginOf(stage)[r] = served[r].prefill_start_ns
      BY <1>1, <1>5 DEF BeginOf
    <3>2. EndOf(stage)[r] = served[r].prefill_done_ns
      BY <1>1, <1>5 DEF EndOf
    <3> QED
      BY <3>1, <3>2, LineParts
  <2>2. d = PrefillTime[requests[r].prompt_tokens]
    BY <1>2, <1>5 DEF Duration
  <2>3. now + d = Line(stage).end[r]
    BY <1>1, <2>1, <2>2 DEF Comparable, Lengths
  <2>4. x = [u EXCEPT !.prefill_start_ns = now, !.prefill_done_ns = now + d]
    BY <1>5 DEF Stamped
  <2> HIDE DEF d, u, x
  <2>5. /\ x.prefill_start_ns = now /\ x.prefill_done_ns = now + d
        /\ x.prefill_tokens = u.prefill_tokens
        /\ x.decode_start_ns = u.decode_start_ns
        /\ x.first_token_ns = u.first_token_ns /\ x.finish_ns = u.finish_ns
    BY <1>1, <2>4 DEF FlightOf
  <2>6. Agrees(x, stage, r)
    BY <1>5, <2>1, <2>3, <2>5 DEF Agrees
  <2>7. \A t \in Stage \ {stage} : t # "Prefill"
    BY <1>5
  <2>8. \A t \in Stage \ {stage} : Agrees(u, t, r) => Agrees(x, t, r)
    BY <2>5, <2>7 DEF Agrees
  <2> QED
    BY <1>1, <1>4, <2>3, <2>5, <2>6, <2>8 DEF d, u, x
<1>6. CASE stage = "Decode"
  <2>1. Line(stage).begin[r] = served[r].decode_start_ns
        /\ Line(stage).end[r] = served[r].finish_ns
    <3>1. BeginOf(stage)[r] = served[r].decode_start_ns
      BY <1>1, <1>6 DEF BeginOf
    <3>2. EndOf(stage)[r] = served[r].finish_ns
      BY <1>1, <1>6 DEF EndOf
    <3> QED
      BY <3>1, <3>2, LineParts
  <2>2. d = StepTime(r) * requests[r].output_tokens
    BY <1>6 DEF Duration, Comparable
  <2>3. now + d = Line(stage).end[r] /\ now + StepTime(r) = served[r].first_token_ns
    BY <1>1, <1>3, <2>1, <2>2 DEF Comparable, Lengths
  <2>4. x = [u EXCEPT !.decode_start_ns = now, !.first_token_ns = now + StepTime(r),
                      !.finish_ns = now + d]
    BY <1>6 DEF Stamped
  <2> HIDE DEF d, u, x
  <2>5. /\ x.decode_start_ns = now /\ x.finish_ns = now + d
        /\ x.first_token_ns = now + StepTime(r)
        /\ x.prefill_tokens = u.prefill_tokens
        /\ x.prefill_start_ns = u.prefill_start_ns
        /\ x.prefill_done_ns = u.prefill_done_ns
    BY <1>1, <2>4 DEF FlightOf
  <2>6. Agrees(x, stage, r)
    BY <1>6, <2>1, <2>3, <2>5 DEF Agrees
  <2>7. \A t \in Stage \ {stage} : t = "Prefill"
    BY <1>6 DEF Stage
  <2>8. \A t \in Stage \ {stage} : Agrees(u, t, r) => Agrees(x, t, r)
    BY <2>5, <2>7 DEF Agrees
  <2> QED
    BY <1>1, <1>4, <2>3, <2>5, <2>6, <2>8 DEF d, u, x
<1> QED
  BY <1>5, <1>6 DEF Stage

\* What a queue holds once somebody has joined it.
LEMMA RangeOfAppend ==
    ASSUME NEW S, NEW s \in Seq(S), NEW x
    PROVE  Range(Append(s, x)) = Range(s) \cup {x}
<1>1. /\ DOMAIN Append(s, x) = 1 .. (Len(s) + 1) /\ DOMAIN s = 1 .. Len(s)
      /\ Len(s) \in Nat /\ Append(s, x)[Len(s) + 1] = x
      /\ \A i \in 1 .. Len(s) : Append(s, x)[i] = s[i]
  OBVIOUS
<1>2. \A i \in 1 .. (Len(s) + 1) : i \in 1 .. Len(s) \/ i = Len(s) + 1
  BY <1>1
<1>3. Len(s) + 1 \in 1 .. (Len(s) + 1) /\ 1 .. Len(s) \subseteq 1 .. (Len(s) + 1)
  BY <1>1
<1> QED
  BY <1>1, <1>2, <1>3 DEF Range

\* What starting r does to the stages, its own and the other.
StartedInStep(q, p, stage, r, g) ==
    /\ Untouched(q) /\ DOMAIN q.in_flight = DOMAIN p.in_flight
    /\ \A s \in DOMAIN p.in_flight \ {r} : q.in_flight[s] = p.in_flight[s]
    /\ Agrees(q.in_flight[r], stage, r)
    /\ q.busy_until[g] = Line(stage).end[r]
    /\ \A Q : WorksDue(q, Q, stage) = WorksDue(p, Q, stage) \cup {WorkFor(stage, r, g)}
    /\ \A t \in Stage \ {stage}, h \in Gpu \ {g} :
          q.waiting[t] = p.waiting[t] => Aside(q, p, t, h)

\* A request that starts at the time at which the baseline starts it.
LEMMA StartInStep ==
    ASSUME Comparable, NEW p \in PoolType({None}), Untouched(p), NEW now \in Nat,
           NEW stage \in Stage, NEW g \in Gpu, NEW r \in DOMAIN p.in_flight,
           Line(stage).begin[r] = now,
           NEW q, OneStarted(q, p, now, stage, r, g)
    PROVE  StartedInStep(q, p, stage, r, g)
<1> DEFINE x == Stamped(p, now, stage, r)
           w == WorkOf(p, now, stage, r, g)
<1>1. /\ now + Duration(p, stage, r) = Line(stage).end[r]
      /\ Agrees(x, stage, r) /\ x.prefill_tokens = 0
      /\ \A t \in Stage \ {stage} : Agrees(p.in_flight[r], t, r) => Agrees(x, t, r)
  BY StampsAgree
<1>2. /\ p.busy_until \in [Gpu -> Nat] /\ p.in_flight \in Flights({None})
      /\ p.events \in Seq(Work)
  BY PoolParts
<1>3. w = WorkFor(stage, r, g)
  BY <1>1 DEF WorkOf, WorkFor
<1>4. w.kind.tag = Done(stage)
  BY DEF WorkOf
<1> HIDE DEF x, w
<1>5. /\ DOMAIN q.in_flight = DOMAIN p.in_flight /\ q.in_flight[r] = x
      /\ \A s \in DOMAIN p.in_flight \ {r} : q.in_flight[s] = p.in_flight[s]
  BY <1>2 DEF OneStarted, Flights, x
<1>6. /\ q.busy_until[g] = Line(stage).end[r]
      /\ \A h \in Gpu \ {g} : q.busy_until[h] = p.busy_until[h]
  BY <1>1, <1>2 DEF OneStarted
<1>7. Range(q.events) = Range(p.events) \cup {w}
  BY <1>2, RangeOfAppend DEF OneStarted, w
<1>8. \A Q : WorksDue(q, Q, stage) = WorksDue(p, Q, stage) \cup {w}
  BY <1>4, <1>7 DEF WorksDue
<1>9. \A t \in Stage \ {stage} : \A Q : WorksDue(q, Q, t) = WorksDue(p, Q, t)
  <2> SUFFICES ASSUME NEW t \in Stage \ {stage}, NEW Q
               PROVE  WorksDue(q, Q, t) = WorksDue(p, Q, t)
    OBVIOUS
  <2>1. w.kind.tag # Done(t)
    BY <1>4, StageDone
  <2> QED
    BY <1>7, <2>1 DEF WorksDue
<1>10. Untouched(q)
  BY <1>1, <1>5 DEF Untouched
<1>11. ASSUME NEW t \in Stage \ {stage}, NEW h \in Gpu \ {g},
              q.waiting[t] = p.waiting[t]
       PROVE  Aside(q, p, t, h)
  BY <1>1, <1>5, <1>6, <1>9, <1>11 DEF Aside
<1> QED
  BY <1>1, <1>3, <1>5, <1>6, <1>8, <1>10, <1>11 DEF StartedInStep

LEMMA RangeEmpty == Range(<<>>) = {}
BY DEF Range

\* What the stages make of a handler's parts.
Onward(q, p, stage, g) ==
    /\ Untouched(q) /\ DOMAIN q.in_flight = DOMAIN p.in_flight
    /\ \A t \in Stage \ {stage}, h \in Gpu \ {g} : Aside(q, p, t, h)

EnteredInStep(q, p, Q, stage, g, C, A, r, now) ==
    /\ Onward(q, p, stage, g)
    /\ q.waiting[stage] = <<>> \/ q.busy_until[g] > now
    /\ \E B : /\ StageIn(q, Q, stage, g, C \ {r}, B, now)
              /\ B \cup Range(q.waiting[stage])
                   = A \cup Range(p.waiting[stage]) \cup {r}

EndedInStep(q, p, Q, stage, g, C, now) ==
    /\ Onward(q, p, stage, g)
    /\ \E B : /\ StageIn(q, Q, stage, g, C, B, now)
              /\ B \cup Range(q.waiting[stage]) = Range(p.waiting[stage])

\* A request enters a stage when the baseline has it ready for it.
LEMMA EntersInStep ==
    ASSUME Comparable, NEW now \in Nat, NEW stage \in Stage, NEW g, Sole(g, stage),
           NEW p \in PoolType({None}), Untouched(p), NEW Q, NEW C, NEW A,
           StageIn(p, Q, stage, g, C, A, now),
           NEW r \in DOMAIN p.in_flight, Comes(Line(stage), C, r, now),
           NEW q, q = StartOrQueue(p, now, stage, r)
    PROVE  EnteredInStep(q, p, Q, stage, g, C, A, r, now)
<1> DEFINE L == Line(stage)
           v == p.waiting[stage]
           b == p.busy_until[g]
<1>1. /\ GoodLine(L) /\ InStep(L, C, v, A, b, now) /\ Comes(L, C, r, now)
      /\ BegunAgree(p, stage, C) /\ g \in Gpu
      /\ WorksDue(p, Q, stage) = {WorkFor(stage, s, g) : s \in A}
  BY LineParts DEF Comparable, StageIn, Sole
<1>2. /\ p.waiting \in [Stage -> Seq(Request)] /\ b \in Nat
      /\ p.busy_until \in [Gpu -> Nat] /\ r \in Request
  BY <1>1, PoolParts
<1>2a. L = Line(stage) /\ v = p.waiting[stage]
  OBVIOUS
<1> HIDE DEF L, v
<1>3. CASE b <= now
  <2>1. /\ v = <<>> /\ A = {} /\ L.begin[r] = now
        /\ InStep(L, C \ {r}, <<>>, {r}, L.end[r], now)
    <3>1. StartsNow(L, C, v, A, r, now)
      BY <1>1, <1>3, EntersAtOnce
    <3> QED
      BY <3>1 DEF StartsNow
  <2>2. OneStarted(q, p, now, stage, r, g) /\ q.waiting = p.waiting
    BY <1>3, SoleSend
  <2>3. /\ Untouched(q) /\ DOMAIN q.in_flight = DOMAIN p.in_flight
        /\ \A s \in DOMAIN p.in_flight \ {r} : q.in_flight[s] = p.in_flight[s]
        /\ Agrees(q.in_flight[r], stage, r)
        /\ q.busy_until[g] = L.end[r]
        /\ WorksDue(q, Q, stage) = WorksDue(p, Q, stage) \cup {WorkFor(stage, r, g)}
        /\ \A t \in Stage \ {stage}, h \in Gpu \ {g} : Aside(q, p, t, h)
    <3>1. StartedInStep(q, p, stage, r, g)
      BY <1>1, <1>2a, <2>1, <2>2, StartInStep
    <3> QED
      BY <1>2a, <2>2, <3>1 DEF StartedInStep
  <2>4. Range(v) = {} /\ q.waiting[stage] = <<>> /\ Range(q.waiting[stage]) = {}
    BY <1>2a, <2>1, <2>2, RangeEmpty
  <2>5. BegunAgree(q, stage, C \ {r})
    BY <1>1, <1>2a, <2>3, <2>4 DEF BegunAgree
  <2>6. WorksDue(q, Q, stage) = {WorkFor(stage, s, g) : s \in {r}}
    BY <1>1, <2>1, <2>3
  <2>7. StageIn(q, Q, stage, g, C \ {r}, {r}, now)
    BY <1>2a, <2>1, <2>3, <2>4, <2>5, <2>6 DEF StageIn
  <2>8. {r} \cup Range(q.waiting[stage]) = A \cup Range(v) \cup {r}
    BY <2>1, <2>4
  <2> QED
    BY <1>2a, <2>3, <2>4, <2>7, <2>8 DEF Onward, EnteredInStep
<1>4. CASE b > now
  <2>1. /\ InStep(L, C \ {r}, Append(v, r), A, b, now)
        /\ Range(Append(v, r)) = Range(v) \cup {r}
    BY <1>1, <1>2a, <1>4, EntersQueue
  <2>2. q = [p EXCEPT !.waiting[stage] = Append(@, r)]
    BY <1>4, SoleSend
  <2>3. /\ q.busy_until = p.busy_until /\ q.in_flight = p.in_flight
        /\ q.events = p.events
        /\ q.waiting = [p.waiting EXCEPT ![stage] = Append(v, r)]
    BY <1>2a, <2>2 DEF PoolType
  <2>4. /\ q.waiting[stage] = Append(v, r)
        /\ \A t \in Stage \ {stage} : q.waiting[t] = p.waiting[t]
    BY <1>2, <2>3
  <2>5. \A t : \A R : WorksDue(q, R, t) = WorksDue(p, R, t)
    BY <2>3 DEF WorksDue
  <2>6. BegunAgree(q, stage, C \ {r})
    BY <1>1, <1>2a, <2>1, <2>3, <2>4 DEF BegunAgree
  <2>7. StageIn(q, Q, stage, g, C \ {r}, A, now)
    BY <1>1, <1>2a, <2>1, <2>3, <2>4, <2>5, <2>6 DEF StageIn
  <2>8. \A t \in Stage \ {stage}, h \in Gpu \ {g} : Aside(q, p, t, h)
    BY <2>3, <2>4, <2>5 DEF Aside
  <2>9. Untouched(q) /\ q.busy_until[g] > now
    BY <1>4, <2>3 DEF Untouched
  <2>10. A \cup Range(q.waiting[stage]) = A \cup Range(v) \cup {r}
    BY <2>1, <2>4
  <2> QED
    BY <1>2a, <2>3, <2>7, <2>8, <2>9, <2>10 DEF Onward, EnteredInStep
<1>5. b <= now \/ b > now
  BY <1>2
<1> QED
  BY <1>3, <1>4, <1>5

\* Somebody ends a stage, and the queue is looked at.
LEMMA EndsInStep ==
    ASSUME Comparable, NEW now \in Nat, NEW stage \in Stage, NEW g, Sole(g, stage),
           NEW p \in PoolType({None}), Untouched(p), NEW Q, NEW C, NEW A,
           StageEnds(p, Q, stage, g, C, A, now),
           Range(p.waiting[stage]) \subseteq DOMAIN p.in_flight,
           NEW q \in TryAssign(p, now, stage)
    PROVE  EndedInStep(q, p, Q, stage, g, C, now)
<1> DEFINE L == Line(stage)
           v == p.waiting[stage]
<1>1. /\ GoodLine(L) /\ BegunAgree(p, stage, C) /\ g \in Gpu
      /\ WorksDue(p, Q, stage) = {} /\ p.busy_until[g] = now
  BY DEF Comparable, StageEnds, Sole
<1>2. PICK b : InStep(L, C, v, A, b, now)
  BY DEF StageEnds
<1>3. PICK r \in A : L.end[r] = now
  BY DEF StageEnds
<1>4. /\ p.waiting \in [Stage -> Seq(Request)]
      /\ p.busy_until \in [Gpu -> Nat] /\ v \in Seq(Request)
  BY <1>1, PoolParts
<1>4a. L = Line(stage) /\ v = p.waiting[stage]
  OBVIOUS
<1> HIDE DEF L, v
<1>5. CASE v = <<>>
  <2>1. NothingDone(q, p)
    BY <1>4a, <1>5, SoleTry
  <2>2. InStep(L, C, v, {}, now, now)
    BY <1>4a, <1>2, <1>3, <1>5, EndsIdle
  <2>3. \A t : \A R : WorksDue(q, R, t) = WorksDue(p, R, t)
    BY <1>4a, <2>1 DEF WorksDue, NothingDone
  <2>4. BegunAgree(q, stage, C)
    BY <1>4a, <1>1, <2>1 DEF BegunAgree, NothingDone
  <2>5. WorksDue(q, Q, stage) = {WorkFor(stage, s, g) : s \in {}}
    BY <1>4a, <1>1, <2>3
  <2>6. StageIn(q, Q, stage, g, C, {}, now)
    BY <1>4a, <1>1, <2>1, <2>2, <2>4, <2>5 DEF StageIn, NothingDone
  <2>7. Onward(q, p, stage, g)
    BY <1>4a, <2>1, <2>3 DEF Onward, Aside, NothingDone, Untouched
  <2>8. {} \cup Range(q.waiting[stage]) = Range(v)
    BY <1>4a, <2>1 DEF NothingDone
  <2> QED
    BY <1>4a, <2>6, <2>7, <2>8 DEF EndedInStep
<1>6. CASE v # <<>>
  <2> DEFINE h == v[1]
             w == SubSeq(v, 2, Len(v))
  <2>1. /\ L.begin[h] = now /\ now < L.end[h]
        /\ InStep(L, C, w, {h}, L.end[h], now)
        /\ Range(v) = Range(w) \cup {h}
    <3>1. HeadStarts(L, C, v, now)
      BY <1>1, <1>2, <1>3, <1>6, EndsNext
    <3> QED
      BY <3>1 DEF HeadStarts
  <2>2. h \in DOMAIN p.in_flight
    BY <1>4a, <2>1
  <2>3. /\ Duration(p, stage, h) \in Nat
        /\ now + Duration(p, stage, h) = L.end[h]
    BY <1>4a, <2>1, <2>2, StampsAgree
  <2>4. Duration(p, stage, h) \in Nat \ {0}
    BY <1>4a, <2>1, <2>3
  <2>5. p.busy_until[g] <= now
    BY <1>4a, <1>1
  <2>6. OneStarted(q, p, now, stage, h, g) /\ q.waiting = [p.waiting EXCEPT ![stage] = w]
    BY <1>4a, <1>6, <2>4, <2>5, SoleTry
  <2> HIDE DEF h, w
  <2>7. /\ q.waiting[stage] = w
        /\ \A t \in Stage \ {stage} : q.waiting[t] = p.waiting[t]
    BY <1>4a, <1>4, <2>6
  <2>8. /\ Untouched(q) /\ DOMAIN q.in_flight = DOMAIN p.in_flight
        /\ \A s \in DOMAIN p.in_flight \ {h} : q.in_flight[s] = p.in_flight[s]
        /\ Agrees(q.in_flight[h], stage, h)
        /\ q.busy_until[g] = L.end[h]
        /\ WorksDue(q, Q, stage) = WorksDue(p, Q, stage) \cup {WorkFor(stage, h, g)}
        /\ \A t \in Stage \ {stage}, k \in Gpu \ {g} : Aside(q, p, t, k)
    <3>1. StartedInStep(q, p, stage, h, g)
      BY <1>4a, <1>1, <2>1, <2>2, <2>6, StartInStep
    <3> QED
      BY <1>4a, <2>7, <3>1 DEF StartedInStep
  <2>9. BegunAgree(q, stage, C)
    BY <1>4a, <1>1, <2>1, <2>7, <2>8 DEF BegunAgree
  <2>10. WorksDue(q, Q, stage) = {WorkFor(stage, s, g) : s \in {h}}
    BY <1>4a, <1>1, <2>8
  <2>11. StageIn(q, Q, stage, g, C, {h}, now)
    BY <1>4a, <2>1, <2>7, <2>8, <2>9, <2>10 DEF StageIn
  <2>12. {h} \cup Range(q.waiting[stage]) = Range(v)
    BY <1>4a, <2>1, <2>7
  <2> QED
    BY <1>4a, <2>8, <2>11, <2>12 DEF Onward, EndedInStep
<1> QED
  BY <1>4a, <1>5, <1>6

-----------------------------------------------------------------------------
(* The baseline, with one worker for a stage, keeps a line *)

\* Everybody has ended when the worker is free, which is when somebody ends.
FreeWhenEnded(S, L, b) ==
    /\ \A s \in S : L.end[s] <= b
    /\ b = 0 \/ \E s \in S : L.end[s] = b

\* One that comes after all of the line takes the worker when both are ready.
LEMMA LineLonger ==
    ASSUME NEW S, NEW L, Chained(S, L), NEW b \in Nat, FreeWhenEnded(S, L, b),
           NEW r, r \notin S, NEW ready \in Nat, NEW from \in Nat, NEW to \in Nat,
           from = Baseline!Later(ready, b), from <= to,
           S = DOMAIN L.ready, S = DOMAIN L.begin, S = DOMAIN L.end,
           \A s \in S : <<s, r>> \in L.order /\ <<r, s>> \notin L.order,
           <<r, r>> \notin L.order,
           NEW M, M.order = L.order, M.ready = Plus(L.ready, r, ready),
           M.begin = Plus(L.begin, r, from), M.end = Plus(L.end, r, to)
    PROVE  Chained(S \cup {r}, M) /\ FreeWhenEnded(S \cup {r}, M, to)
<1>1. /\ M.ready[r] = ready /\ M.begin[r] = from /\ M.end[r] = to
      /\ \A s \in S : /\ M.ready[s] = L.ready[s] /\ M.begin[s] = L.begin[s]
                      /\ M.end[s] = L.end[s]
  BY DEF Plus
<1>2. /\ ready <= from /\ b <= from
      /\ from = ready \/ (from = b /\ b # 0)
  BY DEF Baseline!Later
<1>3. \A s \in S : /\ L.ready[s] \in Nat /\ L.begin[s] \in Nat /\ L.end[s] \in Nat
                   /\ L.ready[s] <= L.begin[s] /\ L.begin[s] <= L.end[s]
                   /\ L.end[s] <= b
  BY DEF Chained, FreeWhenEnded
<1>4. ASSUME NEW s \in S \cup {r}, NEW u \in S \cup {r}, <<s, u>> \in M.order
      PROVE  M.end[s] <= M.begin[u]
  <2>1. s \in S
    BY <1>4
  <2>2. CASE u \in S
    BY <1>1, <1>4, <2>1, <2>2 DEF Chained
  <2>3. CASE u = r
    BY <1>1, <1>2, <1>3, <2>1, <2>3
  <2> QED
    BY <2>2, <2>3
<1>5. ASSUME NEW u \in S \cup {r}
      PROVE  \/ M.begin[u] = M.ready[u]
             \/ \E s \in S \cup {r} : <<s, u>> \in M.order /\ M.end[s] = M.begin[u]
  <2>1. CASE u \in S
    BY <1>1, <2>1 DEF Chained
  <2>2. CASE u = r /\ from = ready
    BY <1>1, <2>2
  <2>3. CASE u = r /\ from = b /\ b # 0
    <3>1. PICK s \in S : L.end[s] = b
      BY <2>3 DEF FreeWhenEnded
    <3> QED
      BY <1>1, <2>3, <3>1
  <2> QED
    BY <1>2, <2>1, <2>2, <2>3
<1>6. \A s \in S \cup {r} : M.end[s] <= to
  BY <1>1, <1>2, <1>3
<1>7. FreeWhenEnded(S \cup {r}, M, to)
  BY <1>1, <1>6 DEF FreeWhenEnded
<1>8. ASSUME NEW s \in S \cup {r}
      PROVE  /\ M.ready[s] \in Nat /\ M.begin[s] \in Nat /\ M.end[s] \in Nat
             /\ M.ready[s] <= M.begin[s] /\ M.begin[s] <= M.end[s]
  BY <1>1, <1>2, <1>3
<1> QED
  BY <1>4, <1>5, <1>7, <1>8 DEF Chained

OneWorker(stage) == Cardinality(DOMAIN BusyOf(stage)) = 1

\* What the baseline's times are reckoned from, in its first run.
Reckoned ==
    /\ Lengths
    /\ \A stage \in Stage : calls <= 1 /\ OneWorker(stage) =>
          \A w \in DOMAIN BusyOf(stage) :
              /\ Chained(Served, Line(stage))
              /\ FreeWhenEnded(Served, Line(stage), BusyOf(stage)[w])

\* A vector of one worker has no other.
LEMMA OnlyWorker ==
    ASSUME NEW b, Vector(b), Cardinality(DOMAIN b) = 1, NEW w \in DOMAIN b, NEW v \in DOMAIN b
    PROVE  v = w
<1>1. IsFiniteSet(DOMAIN b)
  BY VectorParts
<1>2. \E x : DOMAIN b = {x}
  BY <1>1, FS_Singleton
<1> QED
  BY <1>2

\* The numbers of a stage in the step that serves r.
Numbers(stage, r, x) ==
    IF stage = "Prefill" THEN <<Arrival(r), x.prefill_start_ns, x.prefill_done_ns>>
                         ELSE <<x.prefill_done_ns, x.decode_start_ns, x.finish_ns>>

\* run_one adds the numbers of one request to each line.
LEMMA LineServed ==
    ASSUME BaseTypes, NEW r, NEW x, NEW w, NEW v, ServedNext(r, x, w, v), NEW stage \in Stage
    PROVE  LET n == Numbers(stage, r, x)
           IN  /\ n[1] \in Nat /\ n[2] \in Nat /\ n[3] \in Nat
               /\ Line(stage)'.order = Line(stage).order
               /\ Line(stage)'.ready = Plus(Line(stage).ready, r, n[1])
               /\ Line(stage)'.begin = Plus(Line(stage).begin, r, n[2])
               /\ Line(stage)'.end = Plus(Line(stage).end, r, n[3])
               /\ \E u : Books(BusyOf(stage), BusyOf(stage)', u, n[1], n[2], n[3])
<1>1. /\ r \notin Served /\ Served' = Served \cup {r}
      /\ served'[r] = x /\ \A s \in Served : served'[s] = served[s]
      /\ requests' = requests /\ x \in Report /\ Arrival(r) \in Nat
  BY NextFunctions DEF ServedNext
<1>2. Earlier' = Earlier
  BY <1>1 DEF Earlier, Baseline!Sooner
<1>3. \A s : Arrival(s)' = Arrival(s)
  BY <1>1 DEF Arrival
<1>4. DOMAIN ReadyOf(stage) = Served /\ DOMAIN ReadyOf(stage)' = Served'
  BY DEF ReadyOf
<1>5. CASE stage = "Prefill"
  <2>1. ReadyOf(stage)' = Plus(ReadyOf(stage), r, Arrival(r))
    BY <1>1, <1>3, <1>4, <1>5 DEF ReadyOf, Plus
  <2>2. /\ BeginOf(stage)' = Plus(BeginOf(stage), r, x.prefill_start_ns)
        /\ EndOf(stage)' = Plus(EndOf(stage), r, x.prefill_done_ns)
    BY <1>5, NextFunctions
  <2>3. Books(BusyOf(stage), BusyOf(stage)', w, Arrival(r), x.prefill_start_ns,
              x.prefill_done_ns)
    BY <1>5 DEF ServedNext, BusyOf
  <2> QED
    BY <1>1, <1>2, <1>5, <2>1, <2>2, <2>3 DEF Numbers, Line, Report
<1>6. CASE stage = "Decode"
  <2>1. ReadyOf(stage)' = Plus(ReadyOf(stage), r, x.prefill_done_ns)
    BY <1>1, <1>4, <1>6 DEF ReadyOf, Plus
  <2>2. /\ BeginOf(stage)' = Plus(BeginOf(stage), r, x.decode_start_ns)
        /\ EndOf(stage)' = Plus(EndOf(stage), r, x.finish_ns)
    BY <1>6, NextFunctions
  <2>3. Books(BusyOf(stage), BusyOf(stage)', v, x.prefill_done_ns, x.decode_start_ns,
              x.finish_ns)
    BY <1>6 DEF ServedNext, BusyOf
  <2> QED
    BY <1>1, <1>2, <1>6, <2>1, <2>2, <2>3 DEF Numbers, Line, Report
<1> QED
  BY <1>5, <1>6 DEF Stage

\* RunOne extends the chain of each stage that has one worker.
LEMMA ReckonedServes ==
    ASSUME BaseTypes, Served \subseteq Request, Reckoned,
           NEW r \in Request, Baseline!RunOne(r)
    PROVE  Reckoned'
<1>1. PICK x, w, v : ServedNext(r, x, w, v)
  BY RunOneServes
<1>2. /\ r \notin Served /\ r \in DOMAIN requests /\ Served' = Served \cup {r}
      /\ served'[r] = x /\ \A s \in Served : served'[s] = served[s]
      /\ requests' = requests /\ calls' = calls /\ r \in Baseline!ToServe
  BY <1>1, NextFunctions DEF ServedNext
<1>3. Lengths'
  BY <1>1, <1>2 DEF Lengths, Reckoned, ServedNext
<1>4. ASSUME NEW stage \in Stage, calls <= 1, OneWorker(stage)',
             NEW u \in DOMAIN BusyOf(stage)'
      PROVE  Chained(Served, Line(stage))' /\ FreeWhenEnded(Served, Line(stage), BusyOf(stage)[u])'
  <2> DEFINE L == Line(stage)
             M == Line(stage)'
             n == Numbers(stage, r, x)
             b == BusyOf(stage)
             c == BusyOf(stage)'
  <2>1. /\ n[1] \in Nat /\ n[2] \in Nat /\ n[3] \in Nat
        /\ M.order = L.order /\ M.ready = Plus(L.ready, r, n[1])
        /\ M.begin = Plus(L.begin, r, n[2]) /\ M.end = Plus(L.end, r, n[3])
        /\ \E y : Books(b, c, y, n[1], n[2], n[3])
    BY <1>1, LineServed
  <2>2. PICK y : Books(b, c, y, n[1], n[2], n[3])
    BY <2>1
  <2>3. Vector(b)
    BY DEF BaseTypes
  <2>4. /\ Vector(c) /\ DOMAIN c = DOMAIN b /\ c[y] = n[3] /\ y \in DOMAIN b
        /\ n[2] = Baseline!Later(n[1], b[y]) /\ n[2] <= n[3] /\ b[y] \in Nat
    <3>1. b \in [DOMAIN b -> Nat] /\ Vector(c) /\ DOMAIN c = DOMAIN b /\ c[y] = n[3]
      BY <2>2, <2>3, BooksVector, VectorParts
    <3> QED
      BY <2>2, <3>1 DEF Books, Later
  <2>5. u = y /\ c[u] = n[3]
    BY <1>4, <2>4, OnlyWorker DEF OneWorker
  <2>6. OneWorker(stage)
    BY <1>4, <2>4 DEF OneWorker
  <2>7. Chained(Served, L) /\ FreeWhenEnded(Served, L, b[y])
    BY <1>4, <2>4, <2>6 DEF Reckoned
  <2>8. /\ DOMAIN L.ready = Served /\ DOMAIN L.begin = Served /\ DOMAIN L.end = Served
    BY DEF Line, ReadyOf, BeginOf, EndOf
  <2>9. \A s \in Served : <<s, r>> \in L.order /\ <<r, s>> \notin L.order
    <3> SUFFICES ASSUME NEW s \in Served
                 PROVE  <<s, r>> \in Earlier /\ <<r, s>> \notin Earlier
      BY DEF Line
    <3>1. Baseline!Sooner(s, r) /\ s \in DOMAIN requests
      BY <1>2 DEF BaseTypes
    <3>2. ~Baseline!Sooner(r, s)
      BY <1>2, <3>1, SoonerArrives
    <3> QED
      BY <3>1, <3>2 DEF Earlier
  <2>10. <<r, r>> \notin L.order
    <3>1. Arrival(r) \in Nat /\ r \in Nat
      BY <1>2, BaseFunctions
    <3> QED
      BY <3>1 DEF Line, Earlier, Baseline!Sooner, Arrival
  <2> HIDE DEF L, M, n, b, c
  <2>11. Chained(Served \cup {r}, M) /\ FreeWhenEnded(Served \cup {r}, M, n[3])
    BY <1>2, <2>1, <2>4, <2>7, <2>8, <2>9, <2>10, LineLonger
  <2>12. Chained(Served', M) /\ FreeWhenEnded(Served', M, c[u])
    BY <1>2, <2>5, <2>11
  <2> QED
    BY <2>12 DEF M, c, Chained, FreeWhenEnded
<1> QED
  BY <1>2, <1>3, <1>4 DEF Reckoned

\* A call has nobody served yet, and nothing to reckon.
LEMMA ReckonedBegun ==
    ASSUME BaseTypes, Served = {},
           \A stage \in Stage : calls <= 1 /\ OneWorker(stage) =>
              \A w \in DOMAIN BusyOf(stage) : BusyOf(stage)[w] = 0
    PROVE  Reckoned
BY DEF Reckoned, Lengths, Chained, FreeWhenEnded

\* So it is before the first call.
LEMMA ReckonedInit == Baseline!NRInit => Reckoned
<1> SUFFICES ASSUME Baseline!NRInit PROVE Reckoned
  OBVIOUS
<1>1. BaseTypes
  BY BaseBegun DEF BaseInv
<1>2. Served = {}
  BY DEF Baseline!NRInit, Served
<1>3. \A stage \in Stage : \A w \in DOMAIN BusyOf(stage) : BusyOf(stage)[w] = 0
  BY DEF Baseline!NRInit, BusyOf
<1> QED
  BY <1>1, <1>2, <1>3, ReckonedBegun

\* So it is after Call, which only the first time finds its workers free.
LEMMA ReckonedCalled ==
    ASSUME BaseInv, Reckoned, NEW tr \in Traces, Baseline!Call(tr)
    PROVE  Reckoned'
<1>1. /\ calls' = calls + 1 /\ served' = <<>>
      /\ UNCHANGED <<prefill_busy_until, decode_busy_until>>
      /\ BaseTypes
  BY DEF Baseline!Call, BaseInv
<1>2. Served' = {}
  BY <1>1 DEF Served
<1>3. ASSUME NEW stage \in Stage, calls' <= 1, OneWorker(stage)', NEW w \in DOMAIN BusyOf(stage)'
      PROVE  BusyOf(stage)'[w] = 0
  <2>1. calls = 0 /\ Served = {}
    BY <1>1, <1>3 DEF BaseTypes
  <2>2. BusyOf(stage)' = BusyOf(stage) /\ OneWorker(stage)
    BY <1>1, <1>3 DEF BusyOf, OneWorker
  <2>3. FreeWhenEnded({}, Line(stage), BusyOf(stage)[w])
    BY <1>3, <2>1, <2>2 DEF Reckoned
  <2> QED
    BY <2>2, <2>3 DEF FreeWhenEnded
<1> QED
  BY <1>2, <1>3 DEF Reckoned, Lengths, Chained, FreeWhenEnded

\* The lines are the baseline's alone.
LEMMA LineStays ==
    ASSUME UNCHANGED baselineVars
    PROVE  /\ Served' = Served /\ \A stage : Line(stage)' = Line(stage)
           /\ \A stage : BusyOf(stage)' = BusyOf(stage)
<1>1. requests' = requests /\ served' = served
      /\ prefill_busy_until' = prefill_busy_until
      /\ decode_busy_until' = decode_busy_until
  BY DEF baselineVars
<1> QED
  BY <1>1 DEF Served, Line, Earlier, Baseline!Sooner, ReadyOf, Arrival, BeginOf, EndOf, BusyOf

\* The event loop does not touch what the baseline reckons.
LEMMA ReckonedStays ==
    ASSUME Reckoned, UNCHANGED baselineVars
    PROVE  Reckoned'
<1>1. /\ requests' = requests /\ served' = served /\ calls' = calls
  BY DEF baselineVars
<1>2. Lengths'
  BY <1>1 DEF Reckoned, Lengths, Served
<1>3. /\ Served' = Served /\ \A stage : Line(stage)' = Line(stage)
      /\ \A stage : BusyOf(stage)' = BusyOf(stage)
  BY LineStays
<1>4. ASSUME NEW stage \in Stage, calls <= 1, OneWorker(stage)', NEW w \in DOMAIN BusyOf(stage)'
      PROVE  Chained(Served, Line(stage))' /\ FreeWhenEnded(Served, Line(stage), BusyOf(stage)[w])'
  <2>1. OneWorker(stage) /\ w \in DOMAIN BusyOf(stage)
    BY <1>3, <1>4 DEF OneWorker
  <2>2. Chained(Served, Line(stage)) /\ FreeWhenEnded(Served, Line(stage), BusyOf(stage)[w])
    BY <1>4, <2>1 DEF Reckoned
  <2> QED
    BY <1>3, <2>2 DEF Chained, FreeWhenEnded
<1> QED
  BY <1>1, <1>2, <1>4 DEF Reckoned

-----------------------------------------------------------------------------
(* The handlers keep both stages in step *)

Item(f) == [time_ns |-> f.time_ns, kind |-> f.kind]

Pends == {Item(f) : f \in queue}

PendsBut(e) == {Item(f) : f \in queue \ {e}}

Arriving ==
    {r \in Request : \E f \in queue : f.kind.tag = "RequestArrival"
                                      /\ f.kind.request_id = r}

\* Both stages of p are in step: C have yet to arrive, A is being prefilled and
\* B decoded.
BothIn(p, Q, gp, gd, C, A, B, now) ==
    /\ StageIn(p, Q, "Prefill", gp, C, A, now)
    /\ StageIn(p, Q, "Decode", gd, C \cup Range(p.waiting["Prefill"]) \cup A, B, now)
    /\ Untouched(p)

Soles(gp, gd) == Sole(gp, "Prefill") /\ Sole(gd, "Decode") /\ gp # gd

\* Events are handed to the runner in the order in which the baseline serves.
ArrivalsSorted ==
    \A e, f \in queue :
        /\ e.kind.tag = "RequestArrival" /\ f.kind.tag = "RequestArrival"
        /\ Baseline!Sooner(f.kind.request_id, e.kind.request_id)
        => f.seq < e.seq

\* Between two handlers all work of a stage is in the event queue.
LEMMA PoolWorks ==
    ASSUME NEW Q, NEW stage
    PROVE  WorksDue(Pool, Q, stage) = {w \in Q : w.kind.tag = Done(stage)}
BY RangeEmpty DEF WorksDue, Pool

\* The clock goes on to the next event, past nobody's end: every stage
\* remains in step.
LEMMA ClockInStep ==
    ASSUME ServingInv({None}, {}), Comparable, NEW e, IsNext(e), NEW stage \in Stage,
           NEW g, NEW C, NEW A, StageIn(Pool, Pends, stage, g, C, A, now_ns)
    PROVE  StageIn(Pool, Pends, stage, g, C, A, ClockAt(e))
<1> DEFINE L == Line(stage)
           t == ClockAt(e)
<1>1. /\ t \in Nat /\ now_ns \in Nat /\ now_ns <= t
      /\ \A f \in queue : f.time_ns \in Nat /\ t <= f.time_ns
  BY NoFetches, DeliveredOnTime
<1>2. ASSUME NEW s \in A PROVE t <= L.end[s]
  <2>1. WorkFor(stage, s, g) \in WorksDue(Pool, Pends, stage)
    BY DEF StageIn
  <2>2. WorkFor(stage, s, g) \in Pends
    BY <2>1, PoolWorks
  <2>3. PICK f \in queue : Item(f) = WorkFor(stage, s, g)
    BY <2>2 DEF Pends
  <2>4. f.time_ns = L.end[s]
    BY <2>3 DEF Item, WorkFor
  <2> QED
    BY <1>1, <2>4
<1>3. Chained(Request, L)
  BY DEF Comparable, GoodLine
<1>4. InStep(L, C, Pool.waiting[stage], A, Pool.busy_until[g], now_ns)
  BY DEF StageIn
<1> HIDE DEF L, t
<1>5. InStep(L, C, Pool.waiting[stage], A, Pool.busy_until[g], t)
  BY <1>1, <1>2, <1>3, <1>4, InStepLater
<1> QED
  BY <1>5 DEF StageIn, L, t

\* An event does not concern the other stage.
LEMMA OtherWork ==
    ASSUME NEW e, NEW stage, e.kind.tag # Done(stage),
           NEW g, NEW C, NEW A, NEW now, StageIn(Pool, Pends, stage, g, C, A, now)
    PROVE  StageIn(Pool, PendsBut(e), stage, g, C, A, now)
<1>1. ASSUME NEW f \in queue, Item(f).kind.tag = Done(stage) PROVE f \in queue \ {e}
  BY <1>1 DEF Item
<1>2. {w \in Pends : w.kind.tag = Done(stage)} = {w \in PendsBut(e) : w.kind.tag = Done(stage)}
  BY <1>1 DEF Pends, PendsBut
<1>3. WorksDue(Pool, PendsBut(e), stage) = WorksDue(Pool, Pends, stage)
  BY <1>2, PoolWorks
<1> QED
  BY <1>3 DEF StageIn

\* The event that ends a stage is that of the one at work.
LEMMA WorkEnded ==
    ASSUME ServingInv({None}, {}), Comparable, NEW e, IsNext(e), NEW stage \in Stage,
           e.kind.tag = Done(stage),
           NEW g \in Gpu, NEW C, NEW A, StageIn(Pool, Pends, stage, g, C, A, ClockAt(e))
    PROVE  /\ e.kind.request_id \in A /\ e.kind.gpu = g
           /\ Line(stage).end[e.kind.request_id] = ClockAt(e)
           /\ StageEnds(Released(Pool, g, ClockAt(e)), PendsBut(e), stage, g, C, A, ClockAt(e))
<1> DEFINE r == e.kind.request_id
           t == ClockAt(e)
           o == Released(Pool, g, t)
<1>1. /\ t = e.time_ns /\ e \in queue /\ t \in Nat
      /\ \A f \in queue : f.kind.request_id = r => f = e
  BY NoFetches, DeliveredOnTime DEF IsNext, ServingInv, InOnePlace
<1>2. ASSUME NEW f \in queue, f.kind.tag = Done(stage)
      PROVE  f.kind.request_id \in A /\ f.kind.gpu = g
             /\ f.time_ns = Line(stage).end[f.kind.request_id]
  <2>1. Item(f) \in WorksDue(Pool, Pends, stage)
    BY <1>2, PoolWorks DEF Pends, Item
  <2>2. PICK s \in A : Item(f) = WorkFor(stage, s, g)
    BY <2>1 DEF StageIn
  <2>3. /\ f.time_ns = Line(stage).end[s]
        /\ f.kind = [tag |-> Done(stage), request_id |-> s, gpu |-> g]
    BY <2>2 DEF Item, WorkFor
  <2> QED
    BY <2>3
<1>3. r \in A /\ e.kind.gpu = g /\ Line(stage).end[r] = t
  BY <1>1, <1>2
<1>4. \A s \in A : s = r
  BY <1>3 DEF StageIn, InStep
<1>5. \A w \in PendsBut(e) : w.kind.tag # Done(stage)
  <2> SUFFICES ASSUME NEW f \in queue \ {e}, Item(f).kind.tag = Done(stage) PROVE FALSE
    BY DEF PendsBut
  <2>1. f.kind.request_id = r
    BY <1>2, <1>4 DEF Item
  <2> QED
    BY <1>1, <2>1
<1>6. /\ o.in_flight = Pool.in_flight /\ o.waiting = Pool.waiting
      /\ o.events = Pool.events /\ o.busy_until[g] = t
  <2>1. busy_until \in [Gpu -> Nat]
    BY DEF ServingInv, Types
  <2> QED
    BY <2>1 DEF Released, Pool
<1>7. WorksDue(o, PendsBut(e), stage) = {}
  <2>1. WorksDue(o, PendsBut(e), stage) = WorksDue(Pool, PendsBut(e), stage)
    BY <1>6 DEF WorksDue
  <2> QED
    BY <1>5, <2>1, PoolWorks
<1>8. BegunAgree(o, stage, C)
  BY <1>6 DEF StageIn, BegunAgree
<1>9. \E b : InStep(Line(stage), C, o.waiting[stage], A, b, t)
  BY <1>6 DEF StageIn
<1>10. StageEnds(o, PendsBut(e), stage, g, C, A, t)
  BY <1>3, <1>6, <1>7, <1>8, <1>9 DEF StageEnds
<1> QED
  BY <1>3, <1>10

\* The event of one stage releases its GPU, not that of the other.
LEMMA ReleaseAside ==
    ASSUME NEW g \in Gpu, NEW h \in Gpu \ {g}, NEW t, NEW now
    PROVE  Aside(Released(Pool, g, now), Pool, t, h)
<1> DEFINE o == Released(Pool, g, now)
<1>1. /\ o.in_flight = Pool.in_flight /\ o.waiting = Pool.waiting
      /\ o.events = Pool.events /\ o.busy_until[h] = Pool.busy_until[h]
  BY DEF Released, Pool
<1> QED
  BY <1>1 DEF Aside, WorksDue

\* The two stages and their events, told apart.
LEMMA StagesApart ==
    /\ "Prefill" \in Stage /\ "Decode" \in Stage
    /\ "Prefill" # "Decode" /\ Done("Prefill") = "PrefillDone"
    /\ Done("Decode") = "DecodeDone"
    /\ Stage \ {"Prefill"} = {"Decode"} /\ Stage \ {"Decode"} = {"Prefill"}
BY DEF Stage, Done

\* The next arrival is that of the first to come.
LEMMA NextToCome ==
    ASSUME ServingInv({None}, {}), Comparable, ArrivalsSorted, Running,
           NEW e, IsNext(e), e.kind.tag = "RequestArrival"
    PROVE  Comes(Line("Prefill"), Arriving, e.kind.request_id, ClockAt(e))
<1> DEFINE r == e.kind.request_id
<1>1. /\ ClockAt(e) = e.time_ns /\ e \in queue /\ r \in Request
      /\ e.time_ns \in Nat
  BY NoFetches, DeliveredOnTime, EventParts DEF IsNext
<1>2. \A f \in queue : f.kind.tag = "RequestArrival" =>
         f.time_ns = Arrival(f.kind.request_id)
  BY DEF ServingInv, TimelineHonest, Pending, Comparable, Arrival
<1>3. Line("Prefill").ready[r] = ClockAt(e)
  <2>1. ReadyOf("Prefill")[r] = Arrival(r)
    BY <1>1 DEF ReadyOf, Comparable
  <2> QED
    BY <1>1, <1>2, <2>1, LineParts
<1>4. ASSUME NEW u \in Arriving, <<u, r>> \in Earlier PROVE FALSE
  <2>1. PICK f \in queue : f.kind.tag = "RequestArrival" /\ f.kind.request_id = u
    BY DEF Arriving
  <2>2. Baseline!Sooner(u, r)
    BY <1>4 DEF Earlier
  <2>3. f.seq < e.seq
    BY <1>1, <2>1, <2>2 DEF ArrivalsSorted
  <2>4. f.seq \in Nat /\ e.seq \in Nat /\ f.time_ns \in Nat
    BY <1>1, <2>1, NoFetches, EventParts
  <2>5. f # e
    BY <2>3, <2>4
  <2>6. e.time_ns < f.time_ns
    BY <1>1, <2>3, <2>4, <2>5 DEF IsNext, Before
  <2>7. Arrival(r) < Arrival(u)
    BY <1>1, <1>2, <2>1, <2>6
  <2>8. Arrival(r) \in Nat /\ Arrival(u) \in Nat
    BY <1>1, <1>2, <2>1, <2>4
  <2> QED
    BY <2>2, <2>7, <2>8 DEF Baseline!Sooner, Arrival
<1>5. r \in Arriving
  BY <1>1 DEF Arriving
<1> QED
  BY <1>3, <1>4, <1>5, LineParts DEF Comes

\* on_arrival
LEMMA ArrivalInStep ==
    ASSUME ServingInv({None}, {}), Comparable, ArrivalsSorted, Running,
           NEW gp, NEW gd, Soles(gp, gd), NEW A, NEW B,
           BothIn(Pool, Pends, gp, gd, Arriving, A, B, now_ns),
           NEW e, IsNext(e), e.kind.tag = "RequestArrival",
           NEW q, q = StartOrQueue(Pool, ClockAt(e), "Prefill", e.kind.request_id)
    PROVE  \E D : BothIn(q, PendsBut(e), gp, gd, Arriving \ {e.kind.request_id}, D, B, ClockAt(e))
<1> DEFINE r == e.kind.request_id
           t == ClockAt(e)
           Q == PendsBut(e)
           C == Arriving
           CD == C \cup Range(Pool.waiting["Prefill"]) \cup A
<1>1. /\ Sole(gp, "Prefill") /\ Sole(gd, "Decode") /\ gp \in Gpu /\ gd \in Gpu \ {gp}
  BY DEF Soles, Sole
<1>2. /\ StageIn(Pool, Q, "Prefill", gp, C, A, t)
      /\ StageIn(Pool, Q, "Decode", gd, CD, B, t)
      /\ Untouched(Pool)
  BY ClockInStep, OtherWork, StagesApart DEF BothIn
<1>3. Comes(Line("Prefill"), C, r, t)
  BY NextToCome
<1>4. Pool \in PoolType({None}) /\ t \in Nat /\ r \in DOMAIN Pool.in_flight
  BY PoolIsGood, NoFetches, DeliveredOnTime, EventParts DEF PoolGood, IsNext
<1>5. q = StartOrQueue(Pool, t, "Prefill", r) /\ r \in C
  BY <1>3 DEF Comes
<1> HIDE DEF r, t, Q, C, CD
<1>6. /\ Onward(q, Pool, "Prefill", gp)
      /\ \E D : /\ StageIn(q, Q, "Prefill", gp, C \ {r}, D, t)
                /\ D \cup Range(q.waiting["Prefill"])
                     = A \cup Range(Pool.waiting["Prefill"]) \cup {r}
  <2>1. EnteredInStep(q, Pool, Q, "Prefill", gp, C, A, r, t)
    BY <1>1, <1>2, <1>3, <1>4, <1>5, StagesApart, EntersInStep
  <2> QED
    BY <2>1 DEF EnteredInStep
<1>7. PICK D : /\ StageIn(q, Q, "Prefill", gp, C \ {r}, D, t)
               /\ D \cup Range(q.waiting["Prefill"])
                    = A \cup Range(Pool.waiting["Prefill"]) \cup {r}
  BY <1>6
<1>8. Aside(q, Pool, "Decode", gd) /\ Untouched(q)
  BY <1>1, <1>6, StagesApart DEF Onward
<1>9. StageIn(q, Q, "Decode", gd, CD, B, t)
  BY <1>2, <1>8, AsideKeeps
<1>10. CD = (C \ {r}) \cup Range(q.waiting["Prefill"]) \cup D
  BY <1>5, <1>7 DEF CD
<1>11. BothIn(q, Q, gp, gd, C \ {r}, D, B, t)
  BY <1>7, <1>8, <1>9, <1>10 DEF BothIn
<1> QED
  BY <1>11 DEF r, t, Q, C

\* Whoever waits in a pool is in flight.
LEMMA WaitersInFlight ==
    ASSUME NEW tiers, NEW now, NEW p, PoolGood(p, tiers, now), NEW stage \in Stage
    PROVE  Range(p.waiting[stage]) \subseteq DOMAIN p.in_flight
BY DEF PoolGood, HeldIn, WaitsIn, Range

GoesToDecode(C, A, W, X, r, t) ==
    Comes(Line("Decode"), X, r, t) /\ X \ {r} = C \cup W

\* One whose prefill ends is the first to come to the decode stage.
LEMMA NextToDecode ==
    ASSUME Comparable, NEW q, NEW C, NEW A, NEW b, NEW t, NEW r \in A,
           InStep(Line("Prefill"), C, q, A, b, t), Line("Prefill").end[r] = t,
           NEW W, W = Range(q), NEW X, X = C \cup W \cup A
    PROVE  GoesToDecode(C, A, W, X, r, t)
<1>1. /\ \A s \in A : s = r
      /\ A \cap (C \cup Range(q)) = {}
      /\ A \subseteq Request /\ C \subseteq Request /\ Range(q) \subseteq Request
      /\ \A u, s \in Request : <<u, s>> \in Earlier =>
             (u \in C \cup Range(q) => s \in C \cup Range(q))
  BY LineParts DEF InStep, Range
<1>2. Orders(Earlier, Request)
  BY LineParts, StagesApart DEF Comparable, GoodLine
<1>3. ASSUME NEW u \in C \cup Range(q) \cup A, <<u, r>> \in Earlier PROVE FALSE
  <2>1. u # r
    BY <1>1, <1>2, <1>3 DEF Orders
  <2>2. u \in C \cup Range(q)
    BY <1>1, <2>1
  <2> QED
    BY <1>1, <1>3, <2>2
<1>4. Line("Decode").ready[r] = t
  <2>1. r \in Served
    BY <1>1 DEF Comparable
  <2>2. ReadyOf("Decode")[r] = served[r].prefill_done_ns
    BY <2>1 DEF ReadyOf
  <2>3. EndOf("Prefill")[r] = served[r].prefill_done_ns
    BY <2>1 DEF EndOf
  <2> QED
    BY <2>2, <2>3, LineParts
<1> QED
  BY <1>1, <1>3, <1>4, LineParts DEF Comes, GoesToDecode

\* A handler that is given back a GPU begins with a good pool.
LEMMA ReleasedPool ==
    ASSUME ServingInv({None}, {}), NEW e, IsNext(e),
           e.kind.tag \in {"PrefillDone", "DecodeDone"},
           NEW n, n = Released(Pool, e.kind.gpu, ClockAt(e))
    PROVE  /\ PoolGood(Pool, {None}, ClockAt(e)) /\ ClockAt(e) \in Nat /\ TraceOK
           /\ ~HeldIn(n, e.kind.request_id) /\ e.kind.request_id \in DOMAIN n.in_flight
           /\ PoolGood(n, {None}, ClockAt(e))
           /\ n.in_flight = Pool.in_flight /\ n.waiting = Pool.waiting
           /\ Pool.in_flight = in_flight
<1>1. e \in GpuEvents
  BY DEF IsNext, GpuEvents, Pending
<1> DEFINE T == {None}
           F == {}
<1>2. ServingInv(T, F) /\ F \subseteq FetchKind
  OBVIOUS
<1>3. n.in_flight = Pool.in_flight /\ n.waiting = Pool.waiting
      /\ Pool.in_flight = in_flight
  BY DEF Released, Pool
<1> HIDE DEF T, F
<1>4. Begins(n, T, e) /\ Begins(Pool, T, e)
  BY <1>1, <1>2, ReleasedBegins, PoolBegins
<1>5. PoolGood(Pool, T, ClockAt(e))
  BY <1>4 DEF Begins
<1>6. /\ TraceOK /\ ClockAt(e) \in Nat /\ e.kind.request_id \in DOMAIN n.in_flight
      /\ ~HeldIn(n, e.kind.request_id) /\ PoolGood(n, T, ClockAt(e))
  BY <1>2, <1>4, BegunParts
<1> QED
  BY <1>3, <1>5, <1>6 DEF T

\* on_prefill_done
LEMMA PrefillDoneInStep ==
    ASSUME ServingInv({None}, {}), Comparable, Running,
           NEW gp, NEW gd, Soles(gp, gd), NEW A, NEW B,
           BothIn(Pool, Pends, gp, gd, Arriving, A, B, now_ns),
           NEW e, IsNext(e), e.kind.tag = "PrefillDone",
           NEW n, n = Released(Pool, e.kind.gpu, ClockAt(e)),
           NEW o, o = StartOrQueue(n, ClockAt(e), "Decode", e.kind.request_id),
           NEW p \in TryAssign(o, ClockAt(e), "Prefill"),
           NEW q \in TryAssign(p, ClockAt(e), "Decode")
    PROVE  \E D, E : BothIn(q, PendsBut(e), gp, gd, Arriving, D, E, ClockAt(e))
<1> DEFINE r == e.kind.request_id
           t == ClockAt(e)
           Q == PendsBut(e)
           C == Arriving
           W == Range(Pool.waiting["Prefill"])
           CD == C \cup W \cup A
<1>1. /\ Sole(gp, "Prefill") /\ Sole(gd, "Decode") /\ gp \in Gpu /\ gd \in Gpu
      /\ gd \in Gpu \ {gp} /\ gp \in Gpu \ {gd}
  BY DEF Soles, Sole
<1>2. /\ StageIn(Pool, Pends, "Prefill", gp, C, A, t)
      /\ StageIn(Pool, Q, "Decode", gd, CD, B, t)
      /\ Untouched(Pool)
  BY ClockInStep, OtherWork, StagesApart DEF BothIn
<1>3. /\ r \in A /\ e.kind.gpu = gp /\ Line("Prefill").end[r] = t
      /\ StageEnds(n, Q, "Prefill", gp, C, A, t)
  BY <1>1, <1>2, StagesApart, WorkEnded
<1>5. PoolGood(Pool, {None}, t) /\ t \in Nat /\ TraceOK /\ ~HeldIn(n, r)
      /\ r \in DOMAIN n.in_flight /\ PoolGood(n, {None}, t)
      /\ n.in_flight = Pool.in_flight /\ n.waiting = Pool.waiting
  BY ReleasedPool
<1>6. o = StartOrQueue(n, t, "Decode", r)
      /\ p \in TryAssign(o, t, "Prefill") /\ q \in TryAssign(p, t, "Decode")
      /\ n = Released(Pool, gp, t)
  BY <1>3
<1>7. Untouched(n) /\ Range(n.waiting["Prefill"]) = W
  BY <1>2, <1>5 DEF Untouched
<1>8. StageIn(n, Q, "Decode", gd, CD, B, t)
  BY <1>1, <1>2, <1>6, ReleaseAside, AsideKeeps
<1>8a. InStep(Line("Prefill"), C, Pool.waiting["Prefill"], A, Pool.busy_until[gp], t)
  BY <1>2 DEF StageIn
<1>8b. W = Range(Pool.waiting["Prefill"]) /\ CD = C \cup W \cup A
  OBVIOUS
<1> HIDE DEF r, t, Q, C, W, CD
<1>4. /\ Comes(Line("Decode"), CD, r, t) /\ CD \ {r} = C \cup W
  <2>1. GoesToDecode(C, A, W, CD, r, t)
    BY ONLY Comparable, <1>3, <1>8a, <1>8b, NextToDecode
  <2> QED
    BY <2>1 DEF GoesToDecode
<1>9. PoolGood(o, {None}, t) /\ PoolGood(p, {None}, t)
  BY <1>5, <1>6, StagesApart, StartOrQueueGood, TryAssignGood
<1>10. n \in PoolType({None}) /\ o \in PoolType({None}) /\ p \in PoolType({None})
  BY <1>5, <1>9 DEF PoolGood
<1>11. EnteredInStep(o, n, Q, "Decode", gd, CD, B, r, t)
  BY <1>1, <1>4, <1>5, <1>6, <1>7, <1>8, <1>10, StagesApart, EntersInStep
<1>12. /\ Untouched(o) /\ Aside(o, n, "Prefill", gp)
       /\ o.waiting["Decode"] = <<>> \/ o.busy_until[gd] > t
  BY <1>1, <1>11, StagesApart DEF EnteredInStep, Onward
<1>13. PICK E : StageIn(o, Q, "Decode", gd, C \cup W, E, t)
  BY <1>4, <1>11 DEF EnteredInStep
<1>14. StageEnds(o, Q, "Prefill", gp, C, A, t) /\ Range(o.waiting["Prefill"]) = W
  <2>1. StageEnds(o, Q, "Prefill", gp, C, A, t)
    BY <1>3, <1>12, AsideKeeps
  <2> QED
    BY <1>7, <1>12, <2>1 DEF Aside
<1>15. EndedInStep(p, o, Q, "Prefill", gp, C, t)
  BY <1>1, <1>5, <1>6, <1>9, <1>10, <1>12, <1>14, StagesApart, WaitersInFlight, EndsInStep
<1>16. Untouched(p) /\ Aside(p, o, "Decode", gd)
  BY <1>1, <1>15, StagesApart DEF EndedInStep, Onward
<1>17. PICK D : /\ StageIn(p, Q, "Prefill", gp, C, D, t)
                /\ D \cup Range(p.waiting["Prefill"]) = W
  BY <1>14, <1>15 DEF EndedInStep
<1>18. StageIn(p, Q, "Decode", gd, C \cup W, E, t)
  BY <1>13, <1>16, AsideKeeps
<1>19. NothingDone(q, p)
  <2>1. p.waiting["Decode"] = <<>> \/ p.busy_until[gd] > t
    BY <1>12, <1>16 DEF Aside
  <2> QED
    BY <1>1, <1>5, <1>6, <1>9, <1>10, <2>1, StagesApart, WaitersInFlight, SoleTry
<1>20. C \cup W = C \cup Range(p.waiting["Prefill"]) \cup D
  BY <1>17
<1>21. BothIn(p, Q, gp, gd, C, D, E, t)
  BY <1>16, <1>17, <1>18, <1>20 DEF BothIn
<1>22. BothIn(q, Q, gp, gd, C, D, E, t)
  BY <1>19, <1>21 DEF BothIn, StageIn, BegunAgree, WorksDue, Untouched, NothingDone
<1> QED
  BY <1>22 DEF Q, C, t

\* on_decode_done
LEMMA DecodeDoneInStep ==
    ASSUME ServingInv({None}, {}), Comparable, Running,
           NEW gp, NEW gd, Soles(gp, gd), NEW A, NEW B,
           BothIn(Pool, Pends, gp, gd, Arriving, A, B, now_ns),
           NEW e, IsNext(e), e.kind.tag = "DecodeDone",
           NEW n, n = Released(Pool, e.kind.gpu, ClockAt(e)),
           NEW o, o = Finalized(n, e.kind.request_id),
           NEW p \in TryAssign(o, ClockAt(e), "Decode"),
           NEW q \in TryAssign(p, ClockAt(e), "Prefill")
    PROVE  /\ \E E : BothIn(q, PendsBut(e), gp, gd, Arriving, A, E, ClockAt(e))
           /\ \A stage \in Stage :
                 Agrees(in_flight[e.kind.request_id], stage, e.kind.request_id)
<1> DEFINE r == e.kind.request_id
           t == ClockAt(e)
           Q == PendsBut(e)
           C == Arriving
           W == Range(Pool.waiting["Prefill"])
           CD == C \cup W \cup A
<1>1. /\ Sole(gp, "Prefill") /\ Sole(gd, "Decode") /\ gp \in Gpu /\ gd \in Gpu
      /\ gd \in Gpu \ {gp} /\ gp \in Gpu \ {gd}
  BY DEF Soles, Sole
<1>2. /\ StageIn(Pool, Q, "Prefill", gp, C, A, t)
      /\ StageIn(Pool, Pends, "Decode", gd, CD, B, t)
      /\ Untouched(Pool)
  BY ClockInStep, OtherWork, StagesApart DEF BothIn
<1>3. /\ r \in B /\ e.kind.gpu = gd /\ Line("Decode").end[r] = t
      /\ StageEnds(n, Q, "Decode", gd, CD, B, t)
  BY <1>1, <1>2, StagesApart, WorkEnded
<1>5. PoolGood(Pool, {None}, t) /\ t \in Nat /\ TraceOK /\ ~HeldIn(n, r)
      /\ r \in DOMAIN n.in_flight /\ PoolGood(n, {None}, t)
      /\ n.in_flight = Pool.in_flight /\ n.waiting = Pool.waiting
      /\ Pool.in_flight = in_flight
  BY ReleasedPool
<1>6. o = Finalized(n, r)
      /\ p \in TryAssign(o, t, "Decode") /\ q \in TryAssign(p, t, "Prefill")
      /\ n = Released(Pool, gd, t)
  BY <1>3
<1>7. StageIn(n, Q, "Prefill", gp, C, A, t)
  BY <1>1, <1>2, <1>6, ReleaseAside, AsideKeeps
<1>8. \A s \in A : Line("Prefill").end[s] # t
  <2> SUFFICES ASSUME NEW s \in A, Line("Prefill").end[s] = t PROVE FALSE
    OBVIOUS
  <2>1. /\ r \in Request /\ s \in Request /\ s # r
    BY <1>2, <1>3 DEF StageIn, InStep
  <2>2. Line("Decode").ready[s] = Line("Prefill").end[s]
    <3>1. s \in Served
      BY <2>1 DEF Comparable
    <3>2. ReadyOf("Decode")[s] = served[s].prefill_done_ns
          /\ EndOf("Prefill")[s] = served[s].prefill_done_ns
      BY <3>1 DEF ReadyOf, EndOf
    <3> QED
      BY <3>2, LineParts
  <2>3. Untied(Request, Line("Decode"))
    BY StagesApart DEF Comparable, GoodLine
  <2> QED
    BY <1>3, <2>1, <2>2, <2>3 DEF Untied
<1>9. \A stage \in Stage : Agrees(in_flight[r], stage, r)
  <2>1. r \notin CD \cup Range(Pool.waiting["Decode"])
    BY <1>2, <1>3 DEF StageIn, InStep
  <2>2. Agrees(in_flight[r], "Prefill", r)
    BY <1>2, <1>5, <2>1 DEF StageIn, BegunAgree
  <2>3. Agrees(in_flight[r], "Decode", r)
    BY <1>2, <1>5, <2>1 DEF StageIn, BegunAgree
  <2> QED
    BY <2>2, <2>3 DEF Stage
<1> HIDE DEF r, t, Q, C, W, CD
<1>10. PoolGood(o, {None}, t) /\ FinalizedRight(o, n, r)
  BY <1>5, <1>6, FinalizedGood
<1>11. PoolGood(p, {None}, t)
  BY <1>5, <1>6, <1>10, StagesApart, TryAssignGood
<1>12. o \in PoolType({None}) /\ p \in PoolType({None})
  BY <1>10, <1>11 DEF PoolGood
<1>13. Untouched(o) /\ \A stage, X : BegunAgree(n, stage, X) => BegunAgree(o, stage, X)
  BY <1>2, <1>5, <1>10 DEF Untouched, BegunAgree, FinalizedRight
<1>14. /\ StageIn(o, Q, "Prefill", gp, C, A, t)
       /\ StageEnds(o, Q, "Decode", gd, CD, B, t)
  BY <1>3, <1>7, <1>10, <1>13 DEF StageIn, StageEnds, FinalizedRight, WorksDue
<1>15. EndedInStep(p, o, Q, "Decode", gd, CD, t)
  BY <1>1, <1>5, <1>6, <1>10, <1>12, <1>13, <1>14, StagesApart, WaitersInFlight, EndsInStep
<1>16. Untouched(p) /\ Aside(p, o, "Prefill", gp)
  BY <1>1, <1>15, StagesApart DEF EndedInStep, Onward
<1>17. PICK E : StageIn(p, Q, "Decode", gd, CD, E, t)
  BY <1>15 DEF EndedInStep
<1>18. StageIn(p, Q, "Prefill", gp, C, A, t)
  BY <1>14, <1>16, AsideKeeps
<1>19. NothingDone(q, p)
  <2>1. Chained(Request, Line("Prefill"))
    BY StagesApart DEF Comparable, GoodLine
  <2>2. InStep(Line("Prefill"), C, p.waiting["Prefill"], A, p.busy_until[gp], t)
    BY <1>18 DEF StageIn
  <2>3. p.waiting["Prefill"] = <<>> \/ p.busy_until[gp] > t
    BY <1>8, <2>1, <2>2, NobodyToStart
  <2> QED
    BY <1>1, <1>5, <1>6, <1>11, <1>12, <2>3, StagesApart, WaitersInFlight, SoleTry
<1>20. CD = C \cup Range(p.waiting["Prefill"]) \cup A
  BY <1>5, <1>10, <1>16 DEF CD, W, Aside, FinalizedRight
<1>21. BothIn(p, Q, gp, gd, C, A, E, t)
  BY <1>16, <1>17, <1>18, <1>20 DEF BothIn
<1>22. BothIn(q, Q, gp, gd, C, A, E, t)
  BY <1>19, <1>21 DEF BothIn, StageIn, BegunAgree, WorksDue, Untouched, NothingDone
<1> QED
  BY <1>9, <1>22 DEF Q, C, t, r

ResultsAgree == \A r \in DOMAIN results : \A f \in Stamps : results[r][f] = served[r][f]

Synced(gp, gd) ==
    /\ \E A, B : BothIn(Pool, Pends, gp, gd, Arriving, A, B, now_ns)
    /\ ArrivalsSorted
    /\ ResultsAgree

\* Behind the event e come the events of the pool its handler returns with.
LEMMA PendsNext ==
    ASSUME NEW e, NEW q, q.events \in Seq(Work), Commit(e, q)
    PROVE  /\ Pends' = PendsBut(e) \cup Range(q.events)
           /\ Arriving' = {r \in Request : \E f \in queue \ {e} :
                             f.kind.tag = "RequestArrival" /\ f.kind.request_id = r}
           /\ \A f \in queue' : f.kind.tag = "RequestArrival" => f \in queue
<1>1. /\ DOMAIN q.events = 1 .. Len(q.events)
      /\ \A f \in queue' : \/ f \in queue /\ f # e
                           \/ \E i \in DOMAIN q.events : f = NewEvent(q, i)
      /\ \A f \in queue : f # e => f \in queue'
      /\ \A i \in DOMAIN q.events : NewEvent(q, i) \in queue'
  BY CommittedQueue DEF Delivered
<1>2. ASSUME NEW i \in DOMAIN q.events
      PROVE  /\ Item(NewEvent(q, i)) = q.events[i]
             /\ NewEvent(q, i).kind.tag # "RequestArrival"
  <2>1. q.events[i] \in Work
    BY <1>1
  <2>2. q.events[i] = [time_ns |-> q.events[i].time_ns, kind |-> q.events[i].kind]
    BY <2>1 DEF Work
  <2>3. q.events[i].kind.tag # "RequestArrival"
    BY <2>1 DEF Work, GpuKind
  <2>4. /\ NewEvent(q, i).time_ns = q.events[i].time_ns
        /\ NewEvent(q, i).kind = q.events[i].kind
    BY DEF NewEvent
  <2> QED
    BY <2>2, <2>3, <2>4 DEF Item
<1>3. ASSUME NEW f \in queue' PROVE Item(f) \in PendsBut(e) \cup Range(q.events)
  <2>1. CASE f \in queue /\ f # e
    BY <2>1 DEF PendsBut
  <2>2. CASE \E i \in DOMAIN q.events : f = NewEvent(q, i)
    BY <1>2, <2>2 DEF Range
  <2> QED
    BY <1>1, <2>1, <2>2
<1>4. ASSUME NEW x \in PendsBut(e) \cup Range(q.events) PROVE \E f \in queue' : x = Item(f)
  <2>1. CASE x \in PendsBut(e)
    BY <1>1, <2>1 DEF PendsBut
  <2>2. CASE x \in Range(q.events)
    <3>1. PICK i \in DOMAIN q.events : x = q.events[i]
      BY <2>2 DEF Range
    <3> QED
      BY <1>1, <1>2, <3>1
  <2> QED
    BY <2>1, <2>2
<1>5. Pends' = {Item(f) : f \in queue'}
  BY DEF Pends, Item
<1>6. Pends' = PendsBut(e) \cup Range(q.events)
  BY <1>3, <1>4, <1>5
<1>7. \A f \in queue' : f.kind.tag = "RequestArrival" => f \in queue /\ f # e
  BY <1>1, <1>2
<1>8. Arriving' = {r \in Request : \E f \in queue' : f.kind.tag = "RequestArrival"
                                                     /\ f.kind.request_id = r}
  BY DEF Arriving
<1>9. Arriving' = {r \in Request : \E f \in queue \ {e} :
                     f.kind.tag = "RequestArrival" /\ f.kind.request_id = r}
  BY <1>1, <1>7, <1>8
<1> QED
  BY <1>6, <1>7, <1>9

\* The pool a handler returns with is the next state's.
LEMMA CommitsBoth ==
    ASSUME UNCHANGED baselineVars, NEW e, NEW q, q.events \in Seq(Work), Commit(e, q),
           NEW gp, NEW gd, NEW A, NEW B,
           BothIn(q, PendsBut(e), gp, gd, Arriving', A, B, ClockAt(e))
    PROVE  BothIn(Pool, Pends, gp, gd, Arriving, A, B, now_ns)'
<1>1. /\ Pool'.in_flight = q.in_flight /\ Pool'.waiting = q.waiting
      /\ Pool'.busy_until = q.busy_until /\ Pool'.events = <<>>
      /\ now_ns' = ClockAt(e)
  BY DEF Commit, StepAndSchedule, Pool
<1>2. \A stage : Line(stage)' = Line(stage)
  BY LineStays
<1>3. served' = served
  BY DEF baselineVars
<1>4. Pends' = PendsBut(e) \cup Range(q.events)
  BY PendsNext
<1>5. \A stage : WorksDue(Pool', Pends', stage) = WorksDue(q, PendsBut(e), stage)
  BY <1>1, <1>4, RangeEmpty DEF WorksDue
<1>6. ASSUME NEW stage, NEW g, NEW C, NEW D, StageIn(q, PendsBut(e), stage, g, C, D, ClockAt(e))
      PROVE  StageIn(Pool, Pends, stage, g, C, D, now_ns)'
  <2>1. BegunAgree(Pool, stage, C)'
    BY <1>1, <1>3, <1>6 DEF StageIn, BegunAgree, Agrees
  <2>2. InStep(Line(stage)', C, Pool'.waiting[stage], D, Pool'.busy_until[g], now_ns')
    BY <1>1, <1>2, <1>6 DEF StageIn
  <2>4. WorksDue(Pool', Pends', stage) = {WorkFor(stage, s, g)' : s \in D}
    BY <1>2, <1>5, <1>6 DEF StageIn, WorkFor
  <2> QED
    BY <2>1, <2>2, <2>4 DEF StageIn, InStep, WorksDue
<1>7. /\ StageIn(Pool, Pends, "Prefill", gp, Arriving, A, now_ns)'
      /\ StageIn(Pool, Pends, "Decode", gd,
                 Arriving \cup Range(Pool.waiting["Prefill"]) \cup A, B, now_ns)'
  <2> DEFINE CP == Arriving'
             CD == CP \cup Range(q.waiting["Prefill"]) \cup A
  <2>1. /\ StageIn(q, PendsBut(e), "Prefill", gp, CP, A, ClockAt(e))
        /\ StageIn(q, PendsBut(e), "Decode", gd, CD, B, ClockAt(e))
    BY DEF BothIn
  <2>2. (Arriving \cup Range(Pool.waiting["Prefill"]) \cup A)' = CD
    BY <1>1
  <2>3. PICK X : X = CP
    OBVIOUS
  <2>4. PICK Y : Y = CD
    OBVIOUS
  <2> HIDE DEF CP, CD
  <2>5. StageIn(Pool, Pends, "Prefill", gp, X, A, now_ns)'
    BY <1>6, <2>1, <2>3
  <2>6. StageIn(Pool, Pends, "Decode", gd, Y, B, now_ns)'
    BY <1>6, <2>1, <2>4
  <2> QED
    BY <2>2, <2>3, <2>4, <2>5, <2>6 DEF CP, StageIn, InStep, BegunAgree
<1>8. Untouched(Pool)'
  BY <1>1 DEF BothIn, Untouched
<1> QED
  BY <1>7, <1>8 DEF BothIn

\* An arrival leaves those that have yet to come, no other event does.
LEMMA ArrivingLess ==
    ASSUME ServingInv({None}, {}), NEW e, IsNext(e), NEW q, q.events \in Seq(Work),
           Commit(e, q)
    PROVE  /\ e.kind.tag = "RequestArrival" => Arriving' = Arriving \ {e.kind.request_id}
           /\ e.kind.tag # "RequestArrival" => Arriving' = Arriving
<1>1. Arriving' = {r \in Request : \E f \in queue \ {e} :
                     f.kind.tag = "RequestArrival" /\ f.kind.request_id = r}
  BY PendsNext
<1>2. /\ e \in queue
      /\ \A f \in queue : f.kind.request_id = e.kind.request_id => f = e
  BY DEF IsNext, ServingInv, InOnePlace
<1>3. ASSUME e.kind.tag = "RequestArrival"
      PROVE  Arriving' = Arriving \ {e.kind.request_id}
  BY <1>1, <1>2, <1>3 DEF Arriving
<1>4. ASSUME e.kind.tag # "RequestArrival" PROVE Arriving' = Arriving
  BY <1>1, <1>2, <1>4 DEF Arriving
<1> QED
  BY <1>3, <1>4

\* A handler schedules no arrival: those to come remain sorted.
LEMMA StillSorted ==
    ASSUME UNCHANGED baselineVars, NEW e, NEW q, q.events \in Seq(Work), Commit(e, q),
           ArrivalsSorted
    PROVE  ArrivalsSorted'
<1>1. \A f \in queue' : f.kind.tag = "RequestArrival" => f \in queue
  BY PendsNext
<1>2. \A r, s : Baseline!Sooner(r, s)' = Baseline!Sooner(r, s)
  BY DEF baselineVars, Baseline!Sooner
<1> QED
  BY <1>1, <1>2 DEF ArrivalsSorted

\* What a handler schedules is a sequence of work.
LEMMA InPool ==
    ASSUME NEW q, NEW now, PoolGood(q, {None}, now)
    PROVE  q.events \in Seq(Work)
BY PoolParts DEF PoolGood

\* on_arrival keeps both stages in step: the request begins or waits as the
\* baseline has it.
LEMMA ArrivalSynced ==
    ASSUME ServingInv({None}, {}), Comparable, UNCHANGED baselineVars, Running,
           NEW gp, NEW gd, Soles(gp, gd), Synced(gp, gd), NEW e, OnArrival(e)
    PROVE  Synced(gp, gd)'
<1> DEFINE q == StartOrQueue(Pool, ClockAt(e), "Prefill", e.kind.request_id)
<1>1. /\ IsNext(e) /\ e.kind.tag = "RequestArrival" /\ Commit(e, q)
      /\ results' = results /\ served' = served
  BY DEF OnArrival, baselineVars
<1>2. PICK A, B : BothIn(Pool, Pends, gp, gd, Arriving, A, B, now_ns)
  BY DEF Synced
<1>3. ArrivalsSorted /\ ResultsAgree
  BY DEF Synced
<1>4. q.events \in Seq(Work)
  <2>1. PoolGood(Pool, {None}, ClockAt(e)) /\ ClockAt(e) \in Nat /\ TraceOK
    BY <1>1, NoFetches, DeliveredOnTime, PoolIsGood DEF Comparable
  <2>2. ~HeldIn(Pool, e.kind.request_id) /\ e.kind.request_id \in DOMAIN Pool.in_flight
    BY <1>1, NoFetches, EventParts, PoolIsGood DEF IsNext, HeldIn
  <2>3. PoolGood(q, {None}, ClockAt(e))
    BY <2>1, <2>2, StagesApart, StartOrQueueGood
  <2> QED
    BY <2>3, InPool
<1> HIDE DEF q
<1>5. q = StartOrQueue(Pool, ClockAt(e), "Prefill", e.kind.request_id)
  BY DEF q
<1>6. PICK D : BothIn(q, PendsBut(e), gp, gd, Arriving \ {e.kind.request_id}, D, B, ClockAt(e))
  BY <1>1, <1>2, <1>3, <1>5, ArrivalInStep
<1>7. Arriving' = Arriving \ {e.kind.request_id}
  BY <1>1, <1>4, ArrivingLess
<1>8. BothIn(q, PendsBut(e), gp, gd, Arriving', D, B, ClockAt(e))
  BY <1>6, <1>7
<1>9. BothIn(Pool, Pends, gp, gd, Arriving, D, B, now_ns)'
  BY <1>1, <1>4, <1>8, CommitsBoth
<1>10. ArrivalsSorted' /\ ResultsAgree'
  BY <1>1, <1>3, <1>4, StillSorted DEF ResultsAgree
<1> QED
  BY <1>9, <1>10 DEF Synced

\* So does on_prefill_done, which hands the request from one line to the other.
LEMMA PrefillDoneSynced ==
    ASSUME ServingInv({None}, {}), Comparable, UNCHANGED baselineVars, Running,
           NEW gp, NEW gd, Soles(gp, gd), Synced(gp, gd), NEW e, OnPrefillDone(e)
    PROVE  Synced(gp, gd)'
<1> DEFINE n == Released(Pool, e.kind.gpu, ClockAt(e))
           o == StartOrQueue(n, ClockAt(e), "Decode", e.kind.request_id)
<1>1. /\ IsNext(e) /\ e.kind.tag = "PrefillDone"
      /\ results' = results /\ served' = served
  BY DEF OnPrefillDone, baselineVars
<1>2. PICK p \in TryAssign(o, ClockAt(e), "Prefill") :
         \E q \in TryAssign(p, ClockAt(e), "Decode") : Commit(e, q)
  BY DEF OnPrefillDone
<1>3. PICK q \in TryAssign(p, ClockAt(e), "Decode") : Commit(e, q)
  BY <1>2
<1>4. PICK A, B : BothIn(Pool, Pends, gp, gd, Arriving, A, B, now_ns)
  BY DEF Synced
<1>5. ArrivalsSorted /\ ResultsAgree
  BY DEF Synced
<1>6. /\ n = Released(Pool, e.kind.gpu, ClockAt(e))
      /\ o = StartOrQueue(n, ClockAt(e), "Decode", e.kind.request_id)
  OBVIOUS
<1> HIDE DEF n, o
<1>7. q.events \in Seq(Work)
  <2>1. /\ PoolGood(n, {None}, ClockAt(e)) /\ ClockAt(e) \in Nat /\ TraceOK
        /\ ~HeldIn(n, e.kind.request_id) /\ e.kind.request_id \in DOMAIN n.in_flight
    BY <1>1, <1>6, ReleasedPool
  <2>2. PoolGood(o, {None}, ClockAt(e))
    BY <1>6, <2>1, StagesApart, StartOrQueueGood
  <2>3. PoolGood(p, {None}, ClockAt(e))
    BY <2>1, <2>2, StagesApart, TryAssignGood
  <2>4. PoolGood(q, {None}, ClockAt(e))
    BY <2>1, <2>3, StagesApart, TryAssignGood
  <2> QED
    BY <2>4, InPool
<1>8. PICK D, E : BothIn(q, PendsBut(e), gp, gd, Arriving, D, E, ClockAt(e))
  BY <1>1, <1>4, <1>6, PrefillDoneInStep
<1>9. Arriving' = Arriving
  BY <1>1, <1>3, <1>7, ArrivingLess
<1>10. BothIn(q, PendsBut(e), gp, gd, Arriving', D, E, ClockAt(e))
  BY <1>8, <1>9
<1>11. BothIn(Pool, Pends, gp, gd, Arriving, D, E, now_ns)'
  BY <1>3, <1>7, <1>10, CommitsBoth
<1>12. ArrivalsSorted' /\ ResultsAgree'
  BY <1>1, <1>3, <1>5, <1>7, StillSorted DEF ResultsAgree
<1> QED
  BY <1>11, <1>12 DEF Synced

\* So does on_decode_done, and what it reports is what the baseline reports.
LEMMA DecodeDoneSynced ==
    ASSUME ServingInv({None}, {}), Comparable, UNCHANGED baselineVars, Running,
           NEW gp, NEW gd, Soles(gp, gd), Synced(gp, gd), NEW e, OnDecodeDone(e)
    PROVE  Synced(gp, gd)'
<1> DEFINE r == e.kind.request_id
           n == Released(Pool, e.kind.gpu, ClockAt(e))
           o == Finalized(n, e.kind.request_id)
<1>1. /\ IsNext(e) /\ e.kind.tag = "DecodeDone" /\ served' = served
      /\ results' = [s \in DOMAIN results \cup {r} |->
                        IF s = r THEN Timeline(r) ELSE results[s]]
  BY DEF OnDecodeDone, DecodeDone, baselineVars
<1>2. PICK p \in TryAssign(o, ClockAt(e), "Decode") :
         \E q \in TryAssign(p, ClockAt(e), "Prefill") : Commit(e, q)
  BY DEF OnDecodeDone, DecodeDone
<1>3. PICK q \in TryAssign(p, ClockAt(e), "Prefill") : Commit(e, q)
  BY <1>2
<1>4. PICK A, B : BothIn(Pool, Pends, gp, gd, Arriving, A, B, now_ns)
  BY DEF Synced
<1>5. ArrivalsSorted /\ ResultsAgree
  BY DEF Synced
<1>6. /\ n = Released(Pool, e.kind.gpu, ClockAt(e))
      /\ o = Finalized(n, e.kind.request_id)
  OBVIOUS
<1> HIDE DEF n, o
<1>7. q.events \in Seq(Work)
  <2>1. /\ PoolGood(n, {None}, ClockAt(e)) /\ ClockAt(e) \in Nat /\ TraceOK
        /\ ~HeldIn(n, e.kind.request_id)
    BY <1>1, <1>6, ReleasedPool
  <2>2. PoolGood(o, {None}, ClockAt(e))
    BY <1>6, <2>1, FinalizedGood
  <2>3. PoolGood(p, {None}, ClockAt(e))
    BY <2>1, <2>2, StagesApart, TryAssignGood
  <2>4. PoolGood(q, {None}, ClockAt(e))
    BY <2>1, <2>3, StagesApart, TryAssignGood
  <2> QED
    BY <2>4, InPool
<1>8. /\ \E E : BothIn(q, PendsBut(e), gp, gd, Arriving, A, E, ClockAt(e))
      /\ \A stage \in Stage : Agrees(in_flight[r], stage, r)
  BY <1>1, <1>4, <1>6, DecodeDoneInStep
<1>8a. PICK E : BothIn(q, PendsBut(e), gp, gd, Arriving, A, E, ClockAt(e))
  BY <1>8
<1>9. Arriving' = Arriving
  BY <1>1, <1>3, <1>7, ArrivingLess
<1>10. BothIn(q, PendsBut(e), gp, gd, Arriving', A, E, ClockAt(e))
  BY <1>8a, <1>9
<1>11. BothIn(Pool, Pends, gp, gd, Arriving, A, E, now_ns)'
  BY <1>3, <1>7, <1>10, CommitsBoth
<1>12. \A f \in Stamps : Timeline(r)[f] = served[r][f]
  <2>1. Agrees(in_flight[r], "Prefill", r) /\ Agrees(in_flight[r], "Decode", r)
    BY <1>8, StagesApart
  <2>2. \A f \in Stamps : in_flight[r][f] = served[r][f]
    BY <2>1 DEF Agrees, Stamps
  <2>3. r \in Request
    BY <1>1, NoFetches, EventParts DEF IsNext
  <2>4. \A f \in Stamps : served[r][f] \in Nat
    BY <2>3 DEF Comparable, Report, Stamps
  <2>5. None \notin Nat
    BY ServingAssumption
  <2> QED
    BY <2>2, <2>4, <2>5 DEF Timeline
<1>13. ResultsAgree'
  BY <1>1, <1>5, <1>12 DEF ResultsAgree
<1>14. ArrivalsSorted'
  BY <1>3, <1>5, <1>7, StillSorted
<1> QED
  BY <1>11, <1>13, <1>14 DEF Synced

\* So does every handler.
LEMMA HandlersSynced ==
    ASSUME ServingInv({None}, {}), Comparable, UNCHANGED baselineVars, Running,
           NEW gp, NEW gd, Soles(gp, gd), Synced(gp, gd), HandleEvent
    PROVE  Synced(gp, gd)'
BY ArrivalSynced, PrefillDoneSynced, DecodeDoneSynced DEF HandleEvent

\* The event loop has not begun with the batch.
Fresh ==
    /\ now_ns = 0 /\ queue = Arrivals(trace) /\ waiting = EmptyQueues
    /\ in_flight = [r \in Request |-> NewInFlight] /\ results = <<>>
    /\ busy_until = [g \in Gpu |-> 0]

\* The order in which the baseline serves is an order: ties go by request.
LEMMA SoonerOrders ==
    ASSUME \A r \in Request : requests[r].arrival_ns \in Nat
    PROVE  Orders(Earlier, Request)
<1>1. \A r \in Request : r \in Nat
  BY ServingAssumption
<1> DEFINE a(r) == requests[r].arrival_ns
<1>2. \A r, s \in Request :
         <<r, s>> \in Earlier <=> a(r) < a(s) \/ (a(r) = a(s) /\ r < s)
  BY DEF Earlier, Baseline!Sooner
<1>3. \A r \in Request : a(r) \in Nat
  OBVIOUS
<1> HIDE DEF a
<1>4. \A r \in Request : <<r, r>> \notin Earlier
  BY <1>1, <1>2, <1>3
<1>5. \A x, y, z \in Request :
         <<x, y>> \in Earlier /\ <<y, z>> \in Earlier => <<x, z>> \in Earlier
  BY <1>1, <1>2, <1>3
<1>6. \A x, y \in Request : x # y => <<x, y>> \in Earlier \/ <<y, x>> \in Earlier
  BY <1>1, <1>2, <1>3
<1> QED
  BY <1>4, <1>5, <1>6 DEF Orders

\* The first events, by time and sequence number, come in that order.
LEMMA FreshSorted ==
    ASSUME Comparable, queue = Arrivals(trace)
    PROVE  ArrivalsSorted
<1>1. Orders(Earlier, Request) /\ IsFiniteSet(Request)
  BY SoonerOrders, ServingAssumption DEF Comparable, TraceOK
<1>2. \A r, s \in Request : ArrivesBefore(trace, r, s) <=> <<r, s>> \in Earlier
  BY DEF ArrivesBefore, Comparable, Earlier, Baseline!Sooner
<1>3. ASSUME NEW e \in queue
      PROVE  /\ e.kind.request_id \in Request
             /\ e.seq = PlaceIn(Request, Earlier, e.kind.request_id)
  <2>1. PICK r \in Request :
           e = [time_ns |-> trace[r].arrival_ns,
                seq     |-> Cardinality({s \in Request : ArrivesBefore(trace, s, r)}),
                kind    |-> [tag |-> "RequestArrival", request_id |-> r]]
    BY DEF Arrivals
  <2>2. {s \in Request : ArrivesBefore(trace, s, r)} = {s \in Request : <<s, r>> \in Earlier}
    BY <1>2
  <2> QED
    BY <2>1, <2>2 DEF PlaceIn
<1>4. ASSUME NEW e \in queue, NEW f \in queue,
             Baseline!Sooner(f.kind.request_id, e.kind.request_id)
      PROVE  f.seq < e.seq
  <2>1. <<f.kind.request_id, e.kind.request_id>> \in Earlier
    BY <1>3, <1>4 DEF Earlier
  <2> QED
    BY <1>1, <1>3, <2>1, RankIncreases
<1> QED
  BY <1>4 DEF ArrivalsSorted

\* Before the first event nobody is out of step.
LEMMA FreshSynced ==
    ASSUME Comparable, Fresh, NEW gp \in Gpu, NEW gd \in Gpu
    PROVE  Synced(gp, gd)
<1>1. \A f \in queue : f.kind.tag = "RequestArrival" /\ f.kind.request_id \in Request
  <2> SUFFICES ASSUME NEW f \in queue
               PROVE  f.kind.tag = "RequestArrival" /\ f.kind.request_id \in Request
    OBVIOUS
  <2>1. PICK r \in Request :
           f = [time_ns |-> trace[r].arrival_ns,
                seq     |-> Cardinality({s \in Request : ArrivesBefore(trace, s, r)}),
                kind    |-> [tag |-> "RequestArrival", request_id |-> r]]
    BY DEF Fresh, Arrivals
  <2>2. f.kind = [tag |-> "RequestArrival", request_id |-> r]
    BY <2>1
  <2> QED
    BY <2>2
<1>2. Arriving = Request
  <2> SUFFICES ASSUME NEW r \in Request
               PROVE  \E f \in queue : f.kind.tag = "RequestArrival" /\ f.kind.request_id = r
    BY DEF Arriving
  <2> DEFINE f == [time_ns |-> trace[r].arrival_ns,
                   seq     |-> Cardinality({s \in Request : ArrivesBefore(trace, s, r)}),
                   kind    |-> [tag |-> "RequestArrival", request_id |-> r]]
  <2>1. f \in queue
    BY DEF Fresh, Arrivals
  <2> QED
    BY <2>1
<1>3. /\ Pool.in_flight = [r \in Request |-> NewInFlight] /\ Pool.waiting = EmptyQueues
      /\ Pool.busy_until = [g \in Gpu |-> 0]
  BY DEF Pool, Fresh
<1>4. /\ \A stage \in Stage : Pool.waiting[stage] = <<>>
      /\ Range(<<>>) = {} /\ <<>> \in Seq(Request) /\ DOMAIN <<>> = {}
  BY <1>3, RangeEmpty DEF EmptyQueues
<1>5. Untouched(Pool)
  BY <1>3 DEF Untouched, NewInFlight
<1>6. ASSUME NEW stage \in Stage, NEW g \in Gpu
      PROVE  StageIn(Pool, Pends, stage, g, Request, {}, now_ns)
  <2>1. Pool.busy_until[g] = 0 /\ now_ns = 0
    BY <1>3 DEF Fresh
  <2>2. InStep(Line(stage), Request, <<>>, {}, 0, 0)
    BY <1>4 DEF InStep
  <2>3. BegunAgree(Pool, stage, Request)
    BY <1>3 DEF BegunAgree
  <2>4. Done(stage) # "RequestArrival"
    BY DEF Done
  <2>5. WorksDue(Pool, Pends, stage) = {}
    BY <1>1, <2>4, PoolWorks DEF Pends, Item
  <2> QED
    BY <1>4, <2>1, <2>2, <2>3, <2>5 DEF StageIn
<1>7. Arriving \cup Range(Pool.waiting["Prefill"]) \cup {} = Request
  BY <1>2, <1>4, StagesApart
<1>8. BothIn(Pool, Pends, gp, gd, Arriving, {}, {}, now_ns)
  BY <1>2, <1>5, <1>6, <1>7, StagesApart DEF BothIn
<1>9. ResultsAgree
  BY <1>4 DEF Fresh, ResultsAgree
<1> QED
  BY <1>8, <1>9, FreshSorted DEF Synced, Fresh

-----------------------------------------------------------------------------
(* The two runners side by side *)

\* In the first run, once the baseline is done, the stages are in step.
Abreast ==
    Running /\ runs = 1 =>
        \/ Fresh
        \/ /\ Baseline!ToServe = {}
           /\ NoTies => \E gp, gd : Soles(gp, gd) /\ Synced(gp, gd)

\* The inductive invariant of the pair.
SideBySide ==
    /\ Inv /\ BaseInv /\ Reckoned /\ Alike
    /\ calls = runs
    /\ requests = trace
    /\ Abreast

\* One GPU of a role, when there is one.
LEMMA OnlyGpu ==
    ASSUME NEW part \in WorkerRole, Gpus(role, part) = 1
    PROVE  \E g \in Gpu : \A h \in Gpu : role[h] = part <=> h = g
<1> DEFINE S == {g \in Gpu : role[g] = part}
<1>1. Gpu = 1 .. GpuCount /\ GpuCount \in Nat
  BY ServingAssumption DEF Gpu
<1>2. IsFiniteSet(Gpu)
  BY <1>1, FS_Interval
<1>3. IsFiniteSet(S)
  BY <1>2, FS_Subset
<1>4. Cardinality(S) = 1
  BY DEF Gpus
<1>5. \E g : S = {g}
  BY <1>3, <1>4, FS_Singleton
<1> QED
  BY <1>5

\* Where there are no ties the two can be compared.
LEMMA NoTiesCompare ==
    ASSUME SideBySide, Running, runs = 1, Baseline!ToServe = {}, NoTies
    PROVE  Comparable /\ \E gp, gd : Soles(gp, gd)
<1>1. /\ Inv /\ BaseInv /\ Reckoned /\ Alike /\ calls = 1 /\ requests = trace
  BY DEF SideBySide
<1>2. trace \in Traces /\ ServingInv({None}, {}) /\ TraceOK
  BY <1>1 DEF Inv, ServingInv
<1>3. trace \in [Request -> LlmRequest]
  BY <1>2, RunnerAssumption
<1>4. BaseTypes
  BY <1>1 DEF BaseInv
<1>5. Served = Request
  BY <1>1, <1>3, <1>4 DEF BaseTypes, Baseline!ToServe, Served
<1>6. served \in [Request -> Report]
  BY <1>4, <1>5 DEF BaseTypes
<1>7. \A stage \in Stage : OneWorker(stage)
  <2>1. Baseline!Later(1, 1) = 1
    BY DEF Baseline!Later
  <2>2. /\ Cardinality(DOMAIN prefill_busy_until) = 1
        /\ Cardinality(DOMAIN decode_busy_until) = 1
    BY <1>1, <2>1 DEF Alike, NoTies
  <2> QED
    BY <2>2 DEF OneWorker, BusyOf
<1>8. ASSUME NEW stage \in Stage PROVE Chained(Request, Line(stage))
  <2>1. Vector(BusyOf(stage))
    BY <1>4 DEF BaseTypes
  <2>2. PICK w \in DOMAIN BusyOf(stage) : TRUE
    BY <2>1, VectorParts
  <2>3. Chained(Served, Line(stage))
    BY <1>1, <1>7, <2>2 DEF Reckoned
  <2> QED
    BY <1>5, <2>3
<1>9. Orders(Earlier, Request)
  BY <1>1, <1>2, SoonerOrders DEF TraceOK
<1>10. ASSUME NEW stage \in Stage PROVE Untied(Request, Line(stage))
  <2> SUFFICES ASSUME NEW r \in Request, NEW s \in Request, r # s
               PROVE  EndOf(stage)[s] # ReadyOf(stage)[r] /\ EndOf(stage)[s] # EndOf(stage)[r]
    BY DEF Untied, Line
  <2>1. /\ served[s].prefill_done_ns # trace[r].arrival_ns
        /\ served[s].prefill_done_ns # served[r].prefill_done_ns
        /\ served[s].finish_ns # served[r].prefill_done_ns
        /\ served[s].finish_ns # served[r].finish_ns
    BY <1>5 DEF NoTies, Served
  <2>2. r \in Served /\ s \in Served
    BY <1>5
  <2>3. CASE stage = "Prefill"
    BY <1>1, <2>1, <2>2, <2>3 DEF EndOf, ReadyOf, Arrival
  <2>4. CASE stage = "Decode"
    BY <2>1, <2>2, <2>4 DEF EndOf, ReadyOf
  <2> QED
    BY <2>3, <2>4 DEF Stage
<1>11. \A stage \in Stage : GoodLine(Line(stage))
  BY <1>8, <1>9, <1>10, LineParts DEF GoodLine
<1>12. Comparable
  BY <1>1, <1>2, <1>5, <1>6, <1>11 DEF Comparable, Reckoned
<1>13. \E gp, gd : Soles(gp, gd)
  <2>1. PICK gp \in Gpu : \A h \in Gpu : role[h] = "Prefill" <=> h = gp
    BY OnlyGpu DEF NoTies, WorkerRole
  <2>2. PICK gd \in Gpu : \A h \in Gpu : role[h] = "Decode" <=> h = gd
    BY OnlyGpu DEF NoTies, WorkerRole
  <2>3. \A h \in Gpu : role[h] # "Unified"
    <3> DEFINE U == {g \in Gpu : role[g] = "Unified"}
    <3>1. IsFiniteSet(Gpu)
      BY ServingAssumption, FS_Interval DEF Gpu
    <3>2. IsFiniteSet(U) /\ Cardinality(U) = 0
      BY <3>1, FS_Subset DEF NoTies, Gpus
    <3>3. U = {}
      BY <3>2, FS_EmptySet
    <3> QED
      BY <3>3
  <2>4. Soles(gp, gd)
    BY <2>1, <2>2, <2>3 DEF Soles, Sole, Serves
  <2> QED
    BY <2>4
<1> QED
  BY <1>12, <1>13

\* When the event loop takes an event, its stages are in step.
LEMMA CompareSynced ==
    ASSUME SideBySide, Running, runs = 1, Baseline!ToServe = {}, NoTies
    PROVE  Comparable /\ \E gp, gd : Soles(gp, gd) /\ Synced(gp, gd)
<1>1. Comparable
  BY NoTiesCompare
<1>2. CASE Fresh
  <2>1. PICK gp, gd : Soles(gp, gd)
    BY NoTiesCompare
  <2>2. gp \in Gpu /\ gd \in Gpu
    BY <2>1 DEF Soles, Sole
  <2> QED
    BY <1>1, <1>2, <2>1, <2>2, FreshSynced
<1>3. CASE ~Fresh
  BY <1>1, <1>3 DEF SideBySide, Abreast
<1> QED
  BY <1>2, <1>3

\* The invariant holds before the first run.
LEMMA AbreastBegun == BothInit => SideBySide
<1> SUFFICES ASSUME BothInit PROVE SideBySide
  OBVIOUS
<1>1. Inv /\ BaseInv /\ Reckoned /\ Alike
  BY Begun, BaseBegun, ReckonedInit DEF BothInit
<1>2. /\ runs = 0 /\ calls = 0 /\ trace = <<>> /\ requests = <<>>
  BY DEF BothInit, Init, NewServing, Baseline!NRInit
<1> QED
  BY <1>1, <1>2 DEF SideBySide, Abreast

\* A run starts on both sides with the same trace.
LEMMA AbreastStarts ==
    ASSUME SideBySide, StartBoth
    PROVE  Abreast' /\ calls' = runs' /\ requests' = trace' /\ role' = role
           /\ UNCHANGED <<prefill_busy_until, decode_busy_until>>
<1>1. PICK tr \in Traces : StartRun(tr) /\ Baseline!Call(tr)
  BY DEF StartBoth
<1>2. /\ runs' = runs + 1 /\ calls' = calls + 1 /\ calls = runs
      /\ trace' = tr /\ requests' = tr /\ role' = role /\ busy_until' = busy_until
      /\ UNCHANGED <<prefill_busy_until, decode_busy_until>>
      /\ now_ns' = 0 /\ queue' = Arrivals(tr) /\ waiting' = EmptyQueues
      /\ in_flight' = [r \in Request |-> NewInFlight] /\ results' = <<>>
  BY <1>1 DEF StartRun, StartServing, Baseline!Call, SideBySide
<1>3. runs \in Nat /\ (runs = 0 => busy_until = [g \in Gpu |-> 0])
  BY RunnerAssumption DEF SideBySide, Inv
<1>4. ASSUME runs' = 1 PROVE Fresh'
  <2>1. runs = 0
    BY <1>2, <1>3, <1>4
  <2>2. Arrivals(trace)' = Arrivals(tr)
    BY <1>2 DEF Arrivals, ArrivesBefore
  <2> QED
    BY <1>2, <1>3, <2>1, <2>2 DEF Fresh
<1> QED
  BY <1>2, <1>4 DEF Abreast

\* While the baseline serves, the event loop waits.
LEMMA AbreastServes ==
    ASSUME SideBySide, ServeBaseline
    PROVE  Abreast' /\ calls' = runs' /\ requests' = trace' /\ role' = role
<1>1. PICK r \in Request : Baseline!RunOne(r) /\ UNCHANGED vars
  BY DEF ServeBaseline
<1>2. /\ runs' = runs /\ calls' = calls /\ requests' = requests /\ trace' = trace
      /\ role' = role /\ now_ns' = now_ns /\ queue' = queue /\ waiting' = waiting
      /\ in_flight' = in_flight /\ results' = results /\ busy_until' = busy_until
  BY <1>1 DEF vars, simVars, clusterVars, Baseline!RunOne
<1>3. Baseline!ToServe # {}
  BY <1>1 DEF Baseline!RunOne
<1>4. Running' /\ runs' = 1 => Fresh
  BY <1>2, <1>3 DEF SideBySide, Abreast, Running
<1>5. Fresh => Fresh'
  <2>1. Arrivals(trace)' = Arrivals(trace)
    BY <1>2 DEF Arrivals, ArrivesBefore
  <2> QED
    BY <1>2, <2>1 DEF Fresh
<1> QED
  BY <1>2, <1>4, <1>5 DEF SideBySide, Abreast

\* Whether there are ties depends on the batch, the roles and the baseline.
LEMMA NoTiesStays ==
    ASSUME UNCHANGED <<role, trace, baselineVars>>
    PROVE  /\ NoTies' = NoTies /\ Baseline!ToServe' = Baseline!ToServe
           /\ \A gp, gd : Soles(gp, gd)' = Soles(gp, gd)
<1>1. role' = role /\ trace' = trace /\ served' = served /\ requests' = requests
  BY DEF baselineVars
<1> QED
  BY <1>1 DEF NoTies, Gpus, Baseline!ToServe, Soles, Sole, Serves

\* Each handler keeps the two abreast.
LEMMA AbreastHandles ==
    ASSUME SideBySide, ServeEventDriven
    PROVE  Abreast' /\ calls' = runs' /\ requests' = trace' /\ role' = role
<1>1. Baseline!ToServe = {} /\ HandleEvent /\ UNCHANGED baselineVars
  BY DEF ServeEventDriven
<1>2. PICK e, q : Handled(e, q)
  BY <1>1, EveryHandlerReturns DEF SideBySide
<1>3. trace' = trace /\ role' = role /\ runs' = runs /\ Running
      /\ ServingInv({None}, {})
  BY <1>2, HandledParts DEF SideBySide
<1>4. calls' = calls /\ requests' = requests
  BY <1>1 DEF baselineVars
<1>5. /\ NoTies' = NoTies /\ Baseline!ToServe' = Baseline!ToServe
      /\ \A gp, gd : Soles(gp, gd)' = Soles(gp, gd)
  BY <1>1, <1>3, NoTiesStays
<1>6. ASSUME runs = 1, NoTies PROVE \E gp, gd : (Soles(gp, gd) /\ Synced(gp, gd))'
  <2>1. Comparable /\ \E gp, gd : Soles(gp, gd) /\ Synced(gp, gd)
    BY <1>1, <1>3, <1>6, CompareSynced
  <2>2. PICK gp, gd : Soles(gp, gd) /\ Synced(gp, gd)
    BY <2>1
  <2>3. Synced(gp, gd)'
    BY <1>1, <1>3, <2>1, <2>2, HandlersSynced
  <2> QED
    BY <1>5, <2>2, <2>3
<1> QED
  BY <1>1, <1>3, <1>4, <1>5, <1>6 DEF SideBySide, Abreast

\* So does a stutter.
LEMMA AbreastStays ==
    ASSUME SideBySide, UNCHANGED <<vars, baselineVars>>
    PROVE  Abreast' /\ calls' = runs' /\ requests' = trace' /\ role' = role
<1>1. /\ runs' = runs /\ trace' = trace /\ role' = role /\ now_ns' = now_ns
      /\ queue' = queue /\ waiting' = waiting /\ in_flight' = in_flight
      /\ results' = results /\ busy_until' = busy_until
      /\ UNCHANGED baselineVars
  BY DEF vars, simVars, clusterVars
<1>2. calls' = calls /\ requests' = requests /\ served' = served
  BY <1>1 DEF baselineVars
<1>3. /\ NoTies' = NoTies /\ Baseline!ToServe' = Baseline!ToServe
      /\ \A gp, gd : Soles(gp, gd)' = Soles(gp, gd)
  BY <1>1, NoTiesStays
<1>4. Arrivals(trace)' = Arrivals(trace)
  BY <1>1 DEF Arrivals, ArrivesBefore
<1>5. Fresh => Fresh'
  BY <1>1, <1>4 DEF Fresh
<1>6. Pool' = Pool /\ Pends' = Pends /\ Arriving' = Arriving
  BY <1>1 DEF Pool, Pends, Item, Arriving
<1>7. ASSUME NEW gp, NEW gd, Synced(gp, gd) PROVE Synced(gp, gd)'
  <2>1. ArrivalsSorted' /\ ResultsAgree'
    BY <1>1, <1>2, <1>7 DEF Synced, ArrivalsSorted, Baseline!Sooner, ResultsAgree
  <2>2. PICK A, B : BothIn(Pool, Pends, gp, gd, Arriving, A, B, now_ns)
    BY <1>7 DEF Synced
  <2>3. \A stage : Line(stage)' = Line(stage)
    BY <1>1, LineStays
  <2>4. BothIn(Pool, Pends, gp, gd, Arriving, A, B, now_ns)'
    BY <1>1, <1>2, <1>6, <2>2, <2>3
       DEF BothIn, StageIn, InStep, BegunAgree, Agrees, WorkFor, WorksDue, Untouched
  <2> QED
    BY <2>1, <2>4 DEF Synced
<1>8. Running' = Running
  BY <1>1 DEF Running
<1> QED
  BY <1>1, <1>2, <1>3, <1>5, <1>7, <1>8 DEF SideBySide, Abreast

\* Workers and GPUs keep their roles.
LEMMA AlikeStays ==
    ASSUME SideBySide, BothNext \/ UNCHANGED <<vars, baselineVars>>
    PROVE  Alike'
<1>1. /\ DOMAIN prefill_busy_until' = DOMAIN prefill_busy_until
      /\ DOMAIN decode_busy_until' = DOMAIN decode_busy_until
  <2>1. ASSUME NEW r, Baseline!RunOne(r)
        PROVE  /\ DOMAIN prefill_busy_until' = DOMAIN prefill_busy_until
               /\ DOMAIN decode_busy_until' = DOMAIN decode_busy_until
    BY <2>1 DEF Baseline!RunOne
  <2> QED
    BY <2>1 DEF BothNext, StartBoth, ServeBaseline, ServeEventDriven, baselineVars,
                Baseline!Call
<1>2. role' = role
  BY AbreastStarts, AbreastServes, AbreastHandles, AbreastStays DEF BothNext
<1> QED
  BY <1>1, <1>2 DEF SideBySide, Alike, Gpus

\* Every step of the two runners keeps the invariant.
LEMMA BothKept == SideBySide /\ [BothNext]_<<vars, baselineVars>> => SideBySide'
<1> SUFFICES ASSUME SideBySide, BothNext \/ UNCHANGED <<vars, baselineVars>>
             PROVE  SideBySide'
  OBVIOUS
<1>1. [Next]_vars
  BY DEF BothNext, StartBoth, ServeBaseline, ServeEventDriven, Next
<1>2. [Baseline!NRNext]_baselineVars
  BY DEF BothNext, StartBoth, ServeBaseline, ServeEventDriven, Baseline!NRNext
<1>3. Inv' /\ BaseInv'
  BY <1>1, <1>2, Kept, BaseKept DEF SideBySide
<1>4. Alike'
  BY AlikeStays
<1>5. Abreast' /\ calls' = runs' /\ requests' = trace'
  BY AbreastStarts, AbreastServes, AbreastHandles, AbreastStays DEF BothNext
<1>6. Reckoned'
  <2>1. BaseInv /\ BaseTypes /\ Reckoned
    BY DEF SideBySide, BaseInv
  <2>2. CASE StartBoth
    BY <2>1, <2>2, ReckonedCalled DEF StartBoth
  <2>3. CASE ServeBaseline
    <3>1. Served \subseteq Request
      <4>1. requests = <<>> \/ requests \in [Request -> LlmRequest]
        BY <2>1, BaseTraces DEF BaseTypes
      <4> QED
        BY <2>1, <4>1 DEF BaseTypes
    <3> QED
      BY <2>1, <2>3, <3>1, ReckonedServes DEF ServeBaseline
  <2>4. CASE UNCHANGED baselineVars
    BY <2>1, <2>4, ReckonedStays
  <2> QED
    BY <2>2, <2>3, <2>4 DEF BothNext, ServeEventDriven
<1> QED
  BY <1>3, <1>4, <1>5, <1>6 DEF SideBySide

\* With one worker for each stage and no ties the event loop of the first run
\* gives every request the times that the baseline computes, however many
\* requests there are and whatever their lengths (scheduler.rs, runner.rs).
THEOREM RunnersGiveTheSameTimes == BothSpec => []SameTimesWithoutTies
<1>1. SideBySide => SameTimesWithoutTies
  <2> SUFFICES ASSUME SideBySide, runs = 1, Ended, NoTies,
                      NEW r \in DOMAIN results,
                      NEW f \in {"prefill_start_ns", "prefill_done_ns", "decode_start_ns",
                                 "first_token_ns", "finish_ns"}
               PROVE  results[r][f] = served[r][f]
    BY DEF SameTimesWithoutTies
  <2>1. Running /\ f \in Stamps
    BY DEF Ended, Stamps
  <2>2. ~Fresh
    BY DEF Fresh
  <2>3. ResultsAgree
    BY <2>1, <2>2 DEF SideBySide, Abreast, Synced
  <2> QED
    BY <2>1, <2>3 DEF ResultsAgree
<1> QED
  BY <1>1, AbreastBegun, BothKept, PTL DEF BothSpec
=============================================================================
