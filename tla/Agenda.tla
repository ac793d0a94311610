------------------------------- MODULE Agenda -------------------------------
(***************************************************************************)
(* What the simulator promises its callers, without heap and sequence      *)
(* numbers: an agenda of things to come, in the order in which they will   *)
(* be delivered, and a clock that never runs backwards.  What is scheduled *)
(* goes behind everything that is due earlier or at the same time.  A      *)
(* handler may schedule more while it deals with the first.                *)
(*                                                                         *)
(* Simulator implements it.                                                *)
(***************************************************************************)
EXTENDS Naturals, FiniteSets, Sequences, SequencesExt

CONSTANTS
    Time,       \* times that things are scheduled for
    Payload,    \* kinds of things
    MaxHandler  \* bound: how many a handler schedules

VARIABLES clock, agenda

agVars == <<clock, agenda>>

Item == [time_ns : Time, kind : Payload]

Init == clock = 0 /\ agenda = <<>>

\* The number of items that x goes behind.
Behind(ag, x) == Cardinality({i \in DOMAIN ag : ag[i].time_ns <= x.time_ns})

Entered(ag, x) == InsertAt(ag, Behind(ag, x) + 1, x)

\* The items xs, one after the other.
AllEntered(ag, xs) ==
    LET F[n \in 0 .. Len(xs)] == IF n = 0 THEN ag ELSE Entered(F[n - 1], xs[n])
    IN  F[Len(xs)]

Enter(x) ==
    /\ agenda' = Entered(agenda, x)
    /\ UNCHANGED clock

\* The first item is delivered, at its time or, when that is past, now, and the
\* items xs are entered.
Deliver(xs) ==
    /\ agenda # <<>>
    /\ clock' = IF Head(agenda).time_ns > clock THEN Head(agenda).time_ns ELSE clock
    /\ agenda' = AllEntered(Tail(agenda), xs)

Next ==
    \/ \E x \in Item : Enter(x)
    \/ \E n \in 0 .. MaxHandler : \E xs \in [1 .. n -> Item] : Deliver(xs)

Spec == Init /\ [][Next]_agVars
=============================================================================
