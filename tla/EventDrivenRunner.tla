------------------------- MODULE EventDrivenRunner --------------------------
(***************************************************************************)
(* EventDrivenRunner of serving/scheduler.rs: every request is prefilled   *)
(* on one GPU and decoded on another, or queues for one.  One action per   *)
(* event handler, and StartRun for the part of run before its event loop.  *)
(***************************************************************************)
EXTENDS Serving

CONSTANTS
    Clusters,   \* the roles of the GPUs of the clusters it may be built with
    Traces,     \* the batches of requests that run may be called with
    MaxRuns     \* bound: how often run is called on one runner

LlmRequest ==
    [arrival_ns : Nat, prompt_tokens : Tokens, output_tokens : Nat]

ASSUME RunnerAssumption ==
    /\ Request # {}
    /\ Clusters \subseteq [Gpu -> WorkerRole]
    /\ Traces \subseteq [Request -> LlmRequest]
    /\ MaxRuns \in Nat

VARIABLE runs   \* number of calls of run so far

vars == <<simVars, clusterVars, runs>>

Init == (\E roles \in Clusters : NewServing(roles)) /\ runs = 0

StartRun(tr) ==
    /\ runs < MaxRuns
    /\ runs' = runs + 1
    /\ StartServing(tr)

OnArrival(e) ==
    /\ IsNext(e)
    /\ e.kind.tag = "RequestArrival"
    /\ Commit(e, StartOrQueue(Pool, ClockAt(e), "Prefill", e.kind.request_id))
    /\ UNCHANGED <<trace, results, runs>>

\* Mutant of OnPrefillDone: the request is sent to be prefilled again.
OnPrefillDoneAgain(e) ==
    /\ IsNext(e)
    /\ e.kind.tag = "PrefillDone"
    /\ LET now == ClockAt(e)
           p1  == Released(Pool, e.kind.gpu, now)
           p2  == StartOrQueue(p1, now, "Prefill", e.kind.request_id)
       IN  \E p3 \in TryAssign(p2, now, "Prefill") :
           \E p4 \in TryAssign(p3, now, "Decode") : Commit(e, p4)
    /\ UNCHANGED <<trace, results, runs>>

OnPrefillDone(e) ==
    /\ IsNext(e)
    /\ e.kind.tag = "PrefillDone"
    /\ LET now == ClockAt(e)
           p1  == Released(Pool, e.kind.gpu, now)
           p2  == StartOrQueue(p1, now, "Decode", e.kind.request_id)
       IN  \E p3 \in TryAssign(p2, now, "Prefill") :
           \E p4 \in TryAssign(p3, now, "Decode") : Commit(e, p4)
    /\ UNCHANGED <<trace, results, runs>>

OnDecodeDone(e) ==
    /\ IsNext(e)
    /\ e.kind.tag = "DecodeDone"
    /\ DecodeDone(e)
    /\ UNCHANGED runs

HandleEvent ==
    \/ \E e \in queue : OnArrival(e)
    \/ \E e \in queue : OnPrefillDone(e)
    \/ \E e \in queue : OnDecodeDone(e)

Next ==
    \/ \E tr \in Traces : StartRun(tr)
    \/ HandleEvent

Spec == Init /\ [][Next]_vars

\* run's loop delivers events until none is left.
FairSpec == Spec /\ WF_vars(HandleEvent)

-----------------------------------------------------------------------------
(* What must hold *)

Lifecycle ==
    INSTANCE RequestLifecycle
        WITH phase <- [r \in Request |-> PhaseOf(r)], staffed <- Staffed,
             Reuse <- FALSE

Stamp == Nat \cup {None}

InFlight ==
    [prefill_tokens : Tokens, prefill_start_ns : Stamp, prefill_done_ns : Stamp,
     decode_start_ns : Stamp, first_token_ns : Stamp, finish_ns : Stamp,
     pending_fetch_tier : {None}]

Kind ==
    [tag : {"RequestArrival"}, request_id : Request]
      \cup [tag : {"PrefillDone", "DecodeDone"}, request_id : Request, gpu : Gpu]

\* Every variable has its type, and no two pending events have the same
\* sequence number, which the heap's order relies on.
TypeOK ==
    /\ now_ns \in Nat /\ next_seq \in Nat /\ runs \in 0 .. MaxRuns
    /\ \A e \in queue :
          /\ e.time_ns \in Nat /\ e.seq \in 0 .. (next_seq - 1)
          /\ e.kind \in Kind
    /\ \A e, f \in queue : e.seq = f.seq => e = f
    /\ Running => trace \in Traces
    /\ role \in Clusters /\ busy_until \in [Gpu -> Nat]
    /\ DOMAIN in_flight \subseteq Request /\ DOMAIN results \subseteq Request
    /\ \A r \in DOMAIN in_flight : in_flight[r] \in InFlight
    /\ \A r \in DOMAIN results : results[r] \in [Stamps -> Nat]
    /\ waiting \in [Stage -> Seq(Request)]

\* Neither queue is ever overtaken from within, in a run.
QueuesAreFifo ==
    [][runs' = runs => \A stage \in Stage : ~Overtakes(stage)]_vars

\* "Run a batch of requests through the simulator and return per-request
\* results" (scheduler.rs:50-51): when the loop ends, every request has a result.
AllServed == Ended => DOMAIN results = Request

\* The runner is an implementation of RequestLifecycle: its handlers move one
\* request at a time, forwards, through queues and events that together
\* always say where it is, and never leave a queue to itself that a GPU serves.
ImplementsLifecycle == Lifecycle!Spec

(* What the documentation says, and the code does not do *)

\* The stages that go on beyond now.
UnderWay == {e \in GpuEvents : e.time_ns > now_ns}

\* "models prefill/decode workers as discrete resources" (scheduler.rs:13-14):
\* two stages never overlap on one worker, be it for a nanosecond.  An arrival
\* at the instant a worker becomes free is handled before the event that
\* releases the worker; it takes the worker, the release (on_prefill_done) then
\* frees it again under the new work, and a request that waits is given it too.
GpuExclusive ==
    \A e, f \in UnderWay : e.kind.gpu = f.kind.gpu => e = f
=============================================================================
