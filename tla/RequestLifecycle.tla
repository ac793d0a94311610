-------------------------- MODULE RequestLifecycle --------------------------
(***************************************************************************)
(* What a serving runner promises about requests, apart from times, GPUs   *)
(* and caches.  A request is in one phase at a time.  One request at a     *)
(* time ends what it was doing and moves on; requests that wait may start  *)
(* when it does, and no other request moves.  Whoever waits for a stage    *)
(* that has a GPU at all, somebody works: a waiting request is never left  *)
(* alone.                                                                  *)
(*                                                                         *)
(* EventDrivenRunner and CacheAwareRunner implement it.                    *)
(***************************************************************************)
CONSTANTS
    Request,
    Reuse       \* TRUE if a prefill, or part of it, may be saved by a cache

VARIABLES
    phase,
    staffed     \* the stages that some GPU serves, which never change

lcVars == <<phase, staffed>>

AtWork == {"Arriving", "Fetching", "Prefill", "Decode"}

Phase == {"New", "Done", "PrefillQueued", "DecodeQueued"} \cup AtWork

\* Where a request can be when it has ended the phase f.
After(f) ==
    CASE f = "Arriving" ->
            {"PrefillQueued", "Prefill"}
              \cup (IF Reuse THEN {"Fetching", "DecodeQueued", "Decode"} ELSE {})
      [] f = "Fetching" -> {"PrefillQueued", "Prefill", "DecodeQueued", "Decode"}
      [] f = "Prefill"  -> {"DecodeQueued", "Decode"}
      [] f = "Decode"   -> {"Done"}
      [] OTHER          -> {}

\* A waiting request starts.
Starts(f, g) ==
    \/ f = "PrefillQueued" /\ g = "Prefill"
    \/ f = "DecodeQueued" /\ g = "Decode"

Init ==
    /\ phase = [r \in Request |-> "New"]
    /\ staffed \subseteq {"Prefill", "Decode"}

\* Waiting for the stage.
WaitingFor(stage) == IF stage = "Prefill" THEN "PrefillQueued" ELSE "DecodeQueued"

\* A request that has nobody to wait for.
Stranded(r) ==
    \E stage \in {"Prefill", "Decode"} \ staffed : phase[r] = WaitingFor(stage)

Submit ==
    /\ \A r \in Request : phase[r] \in {"New", "Done"} \/ Stranded(r)
    /\ phase' = [r \in Request |-> "Arriving"]
    /\ UNCHANGED staffed

MovesOn(r) ==
    /\ phase[r] \in AtWork
    /\ phase'[r] \in After(phase[r])
    /\ \A s \in Request \ {r} :
          phase'[s] = phase[s] \/ Starts(phase[s], phase'[s])

SomebodyWorks ==
    (\E r \in Request, stage \in staffed : phase[r] = WaitingFor(stage))
        => \E r \in Request : phase[r] \in AtWork

Serve ==
    /\ phase' \in [Request -> Phase]
    /\ \E r \in Request : MovesOn(r)
    /\ SomebodyWorks'
    /\ UNCHANGED staffed

Next == Submit \/ Serve

Spec == Init /\ [][Next]_lcVars
=============================================================================
