---------------------------- MODULE MCSimulator -----------------------------
(***************************************************************************)
(* The simulator with a caller that schedules as it likes before and       *)
(* between steps, in the past too, and handlers that schedule up to two    *)
(* more events while they deal with one.                                   *)
(***************************************************************************)
EXTENDS Simulator, FiniteSets

CONSTANTS
    Time,       \* times that events are scheduled for
    Payload,    \* kinds of events
    MaxEvents,  \* bound: how many events are scheduled
    MaxHandler  \* bound: how many a handler schedules

ASSUME SimulatorAssumption == Time \subseteq Nat

MCTime == 0 .. 2

Item == [time_ns : Time, kind : Payload]

MCSchedule(t, kind) ==
    /\ next_seq < MaxEvents
    /\ Schedule(t, kind)

MCStep(e, evs) ==
    /\ next_seq + Len(evs) <= MaxEvents
    /\ StepAndSchedule(e, evs)

MCNext ==
    \/ \E t \in Time, kind \in Payload : MCSchedule(t, kind)
    \/ \E e \in queue, n \in 0 .. MaxHandler :
          \E evs \in [1 .. n -> Item] : MCStep(e, evs)

MCSpec == NewSimulator /\ [][MCNext]_simVars

\* The pending events in the order of the heap, without their sequence numbers:
\* the i-th is the one that i - 1 come before.
InHeapOrder ==
    [i \in 1 .. Cardinality(queue) |->
        LET e == CHOOSE e \in queue : Cardinality({f \in queue : Before(f, e)}) = i - 1
        IN  [time_ns |-> e.time_ns, kind |-> e.kind]]

Promised == INSTANCE Agenda WITH clock <- now_ns, agenda <- InHeapOrder

\* The heap of numbered events is an implementation of Agenda: at every step
\* the earliest event comes out, at equal times the one scheduled first,
\* whether it was scheduled between two steps or by a handler; none is lost or
\* comes twice, and the clock is the latest time of what has come out, an event
\* in the past notwithstanding (the tests of event.rs and simulator.rs, for
\* every sequence of calls).
ImplementsAgenda == Promised!Spec
=============================================================================
