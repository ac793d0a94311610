---------------------------- MODULE RunnersAgree ----------------------------
(***************************************************************************)
(* NoReuseRunner and EventDrivenRunner on the same batch, with as many     *)
(* prefill and decode workers as there are prefill and decode GPUs (the    *)
(* baseline makes it one where there are none).                            *)
(***************************************************************************)
EXTENDS EventDrivenRunner

VARIABLES requests, prefill_busy_until, decode_busy_until, served, calls

baselineVars ==
    <<requests, prefill_busy_until, decode_busy_until, served, calls>>

Gpus(roles, stage) == Cardinality({g \in Gpu : roles[g] = stage})

Baseline ==
    INSTANCE NoReuseRunner
        WITH Workers <- {<<Gpus(roles, "Prefill"), Gpus(roles, "Decode")>> :
                            roles \in Clusters}

ASSUME BaselineAssumption == Baseline!NoReuseAssumption

\* The two runners are built alike.
Alike ==
    /\ Cardinality(DOMAIN prefill_busy_until) = Baseline!Later(Gpus(role, "Prefill"), 1)
    /\ Cardinality(DOMAIN decode_busy_until) = Baseline!Later(Gpus(role, "Decode"), 1)

BothInit == Init /\ Baseline!NRInit /\ Alike

\* Both runners are given one batch; then the baseline serves it, then the
\* event-driven runner.
StartBoth == \E tr \in Traces : StartRun(tr) /\ Baseline!Call(tr)

ServeBaseline == \E r \in Request : Baseline!RunOne(r) /\ UNCHANGED vars

ServeEventDriven == Baseline!ToServe = {} /\ HandleEvent /\ UNCHANGED baselineVars

BothNext == StartBoth \/ ServeBaseline \/ ServeEventDriven

BothSpec == BothInit /\ [][BothNext]_<<vars, baselineVars>>

\* Both calls of run go on until they return.
BothFairSpec ==
    /\ BothSpec
    /\ WF_<<vars, baselineVars>>(ServeBaseline)
    /\ WF_<<vars, baselineVars>>(ServeEventDriven)

-----------------------------------------------------------------------------
(* What must hold *)

\* The baseline keeps within its workers, serves in order and lets nobody wait
\* for a worker that is free, for every batch and number of workers.
WithinWorkers == Baseline!WithinWorkers

PrefillsInOrder == Baseline!PrefillsInOrder

PrefillPrompt == Baseline!PrefillPrompt

\* There is one worker for each stage, no request arrives, or ends its prefill,
\* at the very instant at which another one frees the worker it needs, and no
\* two free a worker at one instant, as prefills or decodes of no length do:
\* the first event to be handled would free it under the work of the second.
NoTies ==
    /\ Gpus(role, "Prefill") = 1 /\ Gpus(role, "Decode") = 1
    /\ Gpus(role, "Unified") = 0
    /\ \A r, s \in DOMAIN served :
          r # s => /\ served[s].prefill_done_ns
                        \notin {trace[r].arrival_ns, served[r].prefill_done_ns}
                   /\ served[s].finish_ns
                        \notin {served[r].prefill_done_ns, served[r].finish_ns}

\* With one worker for each stage and no ties the event loop gives every
\* request the times that the baseline computes (the test
\* event_driven_matches_no_reuse_for_small_trace, for every such batch).  In the
\* first run, that is: the GPUs of a later one may be busy when it begins, and
\* no event to come will free them.
SameTimesWithoutTies ==
    runs = 1 /\ Ended /\ NoTies =>
        \A r \in DOMAIN results :
            \A f \in {"prefill_start_ns", "prefill_done_ns", "decode_start_ns",
                      "first_token_ns", "finish_ns"} :
                results[r][f] = served[r][f]

\* "This is functionally equivalent to `NoReuseRunner`" (scheduler.rs:16): the
\* first tokens and the ends of all requests come at the same times.
SameTimes ==
    Ended =>
        \A r \in DOMAIN results :
            /\ results[r].first_token_ns = served[r].first_token_ns
            /\ results[r].finish_ns = served[r].finish_ns
=============================================================================
