----------------------------- MODULE Simulator ------------------------------
(***************************************************************************)
(* The discrete-event simulator: core/simulator.rs over core/event.rs.     *)
(*                                                                         *)
(* The binary heap is the set queue of its events.  Events are ordered by  *)
(* time, and by the sequence number schedule gave them at equal times, so  *)
(* the least one is unique.  A runner's handler pops an event and schedules*)
(* others in one step: StepAndSchedule.                                    *)
(***************************************************************************)
EXTENDS Naturals, Sequences

VARIABLES
    now_ns,     \* the clock
    queue,      \* the pending events: [time_ns, seq, kind]
    next_seq    \* the sequence number of the next event to be scheduled

simVars == <<now_ns, queue, next_seq>>

NewSimulator ==
    /\ now_ns = 0
    /\ queue = {}
    /\ next_seq = 0

\* Mutant of Before: last in, first out at equal times.
BeforeLifo(e, f) ==
    \/ e.time_ns < f.time_ns
    \/ e.time_ns = f.time_ns /\ e.seq > f.seq

\* Event's Ord: the heap pops the smallest.
Before(e, f) ==
    \/ e.time_ns < f.time_ns
    \/ e.time_ns = f.time_ns /\ e.seq < f.seq

IsNext(e) ==
    /\ e \in queue
    /\ \A f \in queue \ {e} : Before(e, f)

\* Mutant of ClockAt: the clock is turned back.
ClockAtEvent(e) == e.time_ns

\* The clock when e is delivered: an event in the past does not turn it back.
ClockAt(e) == IF e.time_ns > now_ns THEN e.time_ns ELSE now_ns

\* Mutant of Batch: the sequence number is not advanced between two events.
BatchOneSeq(evs, seq) ==
    {[time_ns |-> evs[i].time_ns, seq |-> seq, kind |-> evs[i].kind] :
        i \in DOMAIN evs}

\* The events that calling schedule for evs[1], evs[2], ... adds, when the
\* next sequence number is seq.
Batch(evs, seq) ==
    {[time_ns |-> evs[i].time_ns, seq |-> seq + i - 1, kind |-> evs[i].kind] :
        i \in DOMAIN evs}

Schedule(time_ns, kind) ==
    /\ queue' = queue \cup Batch(<<[time_ns |-> time_ns, kind |-> kind]>>, next_seq)
    /\ next_seq' = next_seq + 1
    /\ UNCHANGED now_ns

\* Mutant of StepAndSchedule: the other events of that instant are dropped.
StepAndScheduleDropping(e, evs) ==
    /\ IsNext(e)
    /\ now_ns' = ClockAt(e)
    /\ queue' = {f \in queue : f.time_ns # e.time_ns} \cup Batch(evs, next_seq)
    /\ next_seq' = next_seq + Len(evs)

\* step returns e, and its handler schedules evs.
StepAndSchedule(e, evs) ==
    /\ IsNext(e)
    /\ now_ns' = ClockAt(e)
    /\ queue' = (queue \ {e}) \cup Batch(evs, next_seq)
    /\ next_seq' = next_seq + Len(evs)

Step(e) == StepAndSchedule(e, <<>>)
=============================================================================
