--------------------------- MODULE NoReuseRunner ----------------------------
(***************************************************************************)
(* NoReuseRunner of serving/runner.rs, the baseline: the requests are      *)
(* taken in arrival order, and each is given, once and for all, the prefill*)
(* worker and the decode worker that are free first.  There is no event    *)
(* loop; one action is one call of run_one.                                *)
(***************************************************************************)
EXTENDS Naturals, FiniteSets

CONSTANTS
    Request,            \* request ids, natural numbers
    Workers,            \* prefill_workers and decode_workers of the
                        \* ServingConfigs it may be built with: <<p, d>>
    Tokens,             \* prompt lengths that occur
    PrefillTime,        \* ComputeModel::prefill_time_ns
    DecodeStepTime,     \* ComputeModel::decode_step_time_ns
    Traces,             \* the batches run may be called with
    MaxRuns             \* bound: how often run is called on one runner

\* What is assumed of the constants; the modules that build this runner assume it.
NoReuseAssumption ==
    /\ Request \subseteq Nat
    /\ Workers \subseteq Nat \X Nat
    /\ Tokens \subseteq Nat
    /\ PrefillTime \in [Tokens -> Nat] /\ DecodeStepTime \in [Tokens -> Nat]
    /\ Traces \subseteq [Request -> [arrival_ns : Nat, prompt_tokens : Tokens,
                                     output_tokens : Nat]]
    /\ MaxRuns \in Nat

VARIABLES
    requests,           \* the batch of the current run
    prefill_busy_until, \* when each worker is free again
    decode_busy_until,
    served,             \* the results of the current run so far
    calls               \* number of calls of run so far

nrVars == <<requests, prefill_busy_until, decode_busy_until, served, calls>>

Later(a, b) == IF a >= b THEN a ELSE b

\* There is at least one worker for each stage, whatever the configuration.
NRInit ==
    /\ requests = <<>>
    /\ \E n \in Workers :
          /\ prefill_busy_until = [w \in 1 .. Later(n[1], 1) |-> 0]
          /\ decode_busy_until = [w \in 1 .. Later(n[2], 1) |-> 0]
    /\ served = <<>>
    /\ calls = 0

\* Mutant of EarliestWorker: the comparison is the wrong way round.
LatestWorker(busy) ==
    CHOOSE w \in DOMAIN busy :
        \A v \in DOMAIN busy :
            busy[w] > busy[v] \/ (busy[w] = busy[v] /\ w <= v)

\* The first of the workers that are free earliest.
EarliestWorker(busy) ==
    CHOOSE w \in DOMAIN busy :
        \A v \in DOMAIN busy :
            busy[w] < busy[v] \/ (busy[w] = busy[v] /\ w <= v)

Sooner(r, s) ==
    \/ requests[r].arrival_ns < requests[s].arrival_ns
    \/ requests[r].arrival_ns = requests[s].arrival_ns /\ r < s

ToServe == DOMAIN requests \ DOMAIN served

\* A new batch; the workers stay as busy as the last one left them.
Call(tr) ==
    /\ ToServe = {}
    /\ calls < MaxRuns
    /\ calls' = calls + 1
    /\ requests' = tr
    /\ served' = <<>>
    /\ UNCHANGED <<prefill_busy_until, decode_busy_until>>

\* Mutant of RunOne: a decode does not wait for its worker.
RunOneIgnoringDecodes(r) ==
    LET req           == requests[r]
        prefill_idx   == EarliestWorker(prefill_busy_until)
        prefill_start == Later(req.arrival_ns, prefill_busy_until[prefill_idx])
        prefill_done  == prefill_start + PrefillTime[req.prompt_tokens]
        decode_idx    == EarliestWorker(decode_busy_until)
        decode_start  == prefill_done
        step          == DecodeStepTime[req.prompt_tokens]
        finish        == decode_start + step * req.output_tokens
        result        == [prefill_start_ns |-> prefill_start,
                          prefill_done_ns  |-> prefill_done,
                          decode_start_ns  |-> decode_start,
                          first_token_ns   |-> decode_start + step,
                          finish_ns        |-> finish]
    IN  /\ r \in ToServe
        /\ \A s \in ToServe \ {r} : Sooner(r, s)
        /\ prefill_busy_until' =
             [prefill_busy_until EXCEPT ![prefill_idx] = prefill_done]
        /\ decode_busy_until' = [decode_busy_until EXCEPT ![decode_idx] = finish]
        /\ served' = [s \in DOMAIN served \cup {r} |->
                        IF s = r THEN result ELSE served[s]]
        /\ UNCHANGED <<requests, calls>>

\* Mutant of RunOne: the requests are not sorted.
RunOneUnsorted(r) ==
    LET req           == requests[r]
        prefill_idx   == EarliestWorker(prefill_busy_until)
        prefill_start == Later(req.arrival_ns, prefill_busy_until[prefill_idx])
        prefill_done  == prefill_start + PrefillTime[req.prompt_tokens]
        decode_idx    == EarliestWorker(decode_busy_until)
        decode_start  == Later(prefill_done, decode_busy_until[decode_idx])
        step          == DecodeStepTime[req.prompt_tokens]
        finish        == decode_start + step * req.output_tokens
        result        == [prefill_start_ns |-> prefill_start,
                          prefill_done_ns  |-> prefill_done,
                          decode_start_ns  |-> decode_start,
                          first_token_ns   |-> decode_start + step,
                          finish_ns        |-> finish]
    IN  /\ r \in ToServe
        /\ prefill_busy_until' =
             [prefill_busy_until EXCEPT ![prefill_idx] = prefill_done]
        /\ decode_busy_until' = [decode_busy_until EXCEPT ![decode_idx] = finish]
        /\ served' = [s \in DOMAIN served \cup {r} |->
                        IF s = r THEN result ELSE served[s]]
        /\ UNCHANGED <<requests, calls>>

RunOne(r) ==
    LET req           == requests[r]
        prefill_idx   == EarliestWorker(prefill_busy_until)
        prefill_start == Later(req.arrival_ns, prefill_busy_until[prefill_idx])
        prefill_done  == prefill_start + PrefillTime[req.prompt_tokens]
        decode_idx    == EarliestWorker(decode_busy_until)
        decode_start  == Later(prefill_done, decode_busy_until[decode_idx])
        step          == DecodeStepTime[req.prompt_tokens]
        finish        == decode_start + step * req.output_tokens
        result        == [prefill_start_ns |-> prefill_start,
                          prefill_done_ns  |-> prefill_done,
                          decode_start_ns  |-> decode_start,
                          first_token_ns   |-> decode_start + step,
                          finish_ns        |-> finish]
    IN  /\ r \in ToServe
        /\ \A s \in ToServe \ {r} : Sooner(r, s)
        /\ prefill_busy_until' =
             [prefill_busy_until EXCEPT ![prefill_idx] = prefill_done]
        /\ decode_busy_until' = [decode_busy_until EXCEPT ![decode_idx] = finish]
        /\ served' = [s \in DOMAIN served \cup {r} |->
                        IF s = r THEN result ELSE served[s]]
        /\ UNCHANGED <<requests, calls>>

NRNext ==
    \/ \E tr \in Traces : Call(tr)
    \/ \E r \in Request : RunOne(r)

NRSpec == NRInit /\ [][NRNext]_nrVars

-----------------------------------------------------------------------------
(* What must hold *)

\* At no instant are there more prefills under way than prefill workers, or
\* more decodes than decode workers, although nothing but the two vectors of
\* busy times keeps them apart.
WithinWorkers ==
    \A r \in DOMAIN served :
        /\ Cardinality({s \in DOMAIN served :
              /\ served[s].prefill_start_ns <= served[r].prefill_start_ns
              /\ served[r].prefill_start_ns < served[s].prefill_done_ns})
             <= Cardinality(DOMAIN prefill_busy_until)
        /\ Cardinality({s \in DOMAIN served :
              /\ served[s].decode_start_ns <= served[r].decode_start_ns
              /\ served[r].decode_start_ns < served[s].finish_ns})
             <= Cardinality(DOMAIN decode_busy_until)

\* First come, first served: prefills start in the order of arrival.  (Decodes
\* need not: a worker is reserved for a request whose prefill ends late.)
PrefillsInOrder ==
    \A r, s \in DOMAIN served :
        Sooner(r, s) => served[r].prefill_start_ns <= served[s].prefill_start_ns

\* While a request waits for its prefill every prefill worker is at work: none
\* is left idle.  In the first run, that is: the workers of a later one may be
\* waiting for the end of an earlier.
PrefillPrompt ==
    calls = 1 =>
        \A r \in DOMAIN served :
            \A t \in requests[r].arrival_ns .. (served[r].prefill_start_ns - 1) :
                Cardinality({s \in DOMAIN served :
                    /\ served[s].prefill_start_ns <= t
                    /\ t < served[s].prefill_done_ns})
                  = Cardinality(DOMAIN prefill_busy_until)
=============================================================================
