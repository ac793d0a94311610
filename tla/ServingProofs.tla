--------------------------- MODULE ServingProofs ----------------------------
(***************************************************************************)
(* What the handlers of both runners have in common, for every number of   *)
(* requests and GPUs and all times: starting, queueing and assigning work  *)
(* moves a request from one place to another, leaves the others where they *)
(* are and stamps what it schedules.                                       *)
(***************************************************************************)
EXTENDS Serving, FiniteSetTheorems, SequenceTheorems, TLAPS

-----------------------------------------------------------------------------
(* Ranks in a finite order *)

\* How many elements of S come before x.
PlaceIn(S, R, x) == Cardinality({y \in S : <<y, x>> \in R})

\* R orders S strictly.
Orders(R, S) ==
    /\ \A x \in S : <<x, x>> \notin R
    /\ \A x, y, z \in S : <<x, y>> \in R /\ <<y, z>> \in R => <<x, z>> \in R
    /\ \A x, y \in S : x # y => <<x, y>> \in R \/ <<y, x>> \in R

LEMMA RankIncreases ==
    ASSUME NEW S, NEW R, IsFiniteSet(S), Orders(R, S), NEW x \in S
    PROVE  /\ PlaceIn(S, R, x) \in 0 .. (Cardinality(S) - 1)
           /\ \A y \in S : <<y, x>> \in R => PlaceIn(S, R, y) < PlaceIn(S, R, x)
<1> DEFINE Below(y) == {z \in S : <<z, y>> \in R}
<1>1. ASSUME NEW T \in SUBSET S, NEW y \in S \ T
      PROVE  Cardinality(T) < Cardinality(T \cup {y})
  <2>1. IsFiniteSet(T)
    BY FS_Subset
  <2>2. Cardinality(T) \in Nat /\ Cardinality(T \cup {y}) = Cardinality(T) + 1
    BY <2>1, FS_AddElement, FS_CardinalityType
  <2> QED
    BY <2>2
<1>2. ASSUME NEW T \in SUBSET S, NEW U \in SUBSET T
      PROVE  Cardinality(U) <= Cardinality(T) /\ Cardinality(T) \in Nat
             /\ Cardinality(U) \in Nat
  <2>1. IsFiniteSet(T)
    BY FS_Subset
  <2>2. IsFiniteSet(U)
    BY <2>1, FS_Subset
  <2> QED
    BY <2>1, <2>2, FS_Subset, FS_CardinalityType
<1>3. Below(x) \in SUBSET S /\ x \notin Below(x)
  BY DEF Orders
<1>4. /\ Cardinality(Below(x)) \in Nat /\ Cardinality(S) \in Nat
      /\ Cardinality(Below(x)) < Cardinality(S)
  <2>1. Below(x) \cup {x} \in SUBSET S
    BY <1>3
  <2> HIDE DEF Below
  <2>2. /\ Cardinality(Below(x)) < Cardinality(Below(x) \cup {x})
        /\ Cardinality(Below(x) \cup {x}) <= Cardinality(S)
        /\ Cardinality(Below(x)) \in Nat /\ Cardinality(S) \in Nat
        /\ Cardinality(Below(x) \cup {x}) \in Nat
    BY <1>1, <1>2, <1>3, <2>1
  <2> QED
    BY <2>2
<1>5. ASSUME NEW y \in S, <<y, x>> \in R
      PROVE  Cardinality(Below(y)) < Cardinality(Below(x))
  <2>1. Below(y) \in SUBSET S /\ y \notin Below(y)
    BY DEF Orders
  <2>2. Below(y) \cup {y} \in SUBSET Below(x)
    BY <1>5 DEF Orders
  <2> HIDE DEF Below
  <2>3. /\ Cardinality(Below(y)) < Cardinality(Below(y) \cup {y})
        /\ Cardinality(Below(y) \cup {y}) <= Cardinality(Below(x))
        /\ Cardinality(Below(y)) \in Nat /\ Cardinality(Below(x)) \in Nat
        /\ Cardinality(Below(y) \cup {y}) \in Nat
    BY <1>1, <1>2, <1>3, <2>1, <2>2
  <2> QED
    BY <2>3
<1> QED
  BY <1>4, <1>5 DEF PlaceIn

\* Ranks are the numbers 0, 1, 2, ..., each once, so that some element is first.
LEMMA FirstExists ==
    ASSUME NEW S, NEW R, IsFiniteSet(S), Orders(R, S), S # {}
    PROVE  \E x \in S : \A y \in S : y # x => <<x, y>> \in R
<1> DEFINE n == Cardinality(S)
           T == 0 .. (n - 1)
           rank == [x \in S |-> PlaceIn(S, R, x)]
<1>1. n \in Nat
  BY FS_CardinalityType
<1>1a. n # 0
  BY FS_EmptySet
<1>2. IsFiniteSet(T) /\ Cardinality(T) = n
  <2>1. IsFiniteSet(T) /\ Cardinality(T) = IF 0 > n - 1 THEN 0 ELSE (n - 1) - 0 + 1
    BY <1>1, FS_Interval
  <2> QED
    BY <1>1, <1>1a, <2>1
<1>3. rank \in Injection(S, T)
  <2>1. rank \in [S -> T]
    BY RankIncreases
  <2>2. ASSUME NEW x \in S, NEW y \in S, x # y PROVE rank[x] # rank[y]
    <3>1. <<x, y>> \in R \/ <<y, x>> \in R
      BY <2>2 DEF Orders
    <3>2. PlaceIn(S, R, x) \in Int /\ PlaceIn(S, R, y) \in Int
      BY RankIncreases
    <3>3. PlaceIn(S, R, x) < PlaceIn(S, R, y) \/ PlaceIn(S, R, y) < PlaceIn(S, R, x)
      BY <3>1, RankIncreases
    <3> QED
      BY <3>2, <3>3
  <2> QED
    BY <2>1, <2>2 DEF Injection, IsInjective
<1>4. rank \in Surjection(S, T)
  <2> HIDE DEF rank, T, n
  <2> QED
    BY <1>2, <1>3, FS_Injection DEF n
<1>5. PICK x \in S : rank[x] = 0
  <2>1. 0 \in T
    BY <1>1, <1>1a
  <2> HIDE DEF rank, T
  <2> QED
    BY <1>4, <2>1 DEF Surjection
<1>6. ASSUME NEW y \in S, y # x PROVE <<x, y>> \in R
  <2>1. PlaceIn(S, R, x) = 0 /\ PlaceIn(S, R, y) \in Nat
    BY <1>5, RankIncreases
  <2>2. <<y, x>> \notin R
    <3>1. <<y, x>> \in R => PlaceIn(S, R, y) < PlaceIn(S, R, x)
      BY RankIncreases
    <3> QED
      BY <2>1, <3>1
  <2> QED
    BY <1>6, <2>2 DEF Orders
<1> QED
  BY <1>6

-----------------------------------------------------------------------------
(* Types *)

When == Nat \cup {None}

\* A request in flight whose fetch, if one is pending, comes from one of tiers.
FlightOf(tiers) ==
    [prefill_tokens : Tokens, prefill_start_ns : When, prefill_done_ns : When,
     decode_start_ns : When, first_token_ns : When, finish_ns : When,
     pending_fetch_tier : tiers]

Flights(tiers) == UNION {[D -> FlightOf(tiers)] : D \in SUBSET Request}

ArrivalKind == [tag : {"RequestArrival"}, request_id : Request]

FetchKind == [tag : {"FetchDone"}, request_id : Request]

GpuKind == [tag : {"PrefillDone", "DecodeDone"}, request_id : Request, gpu : Gpu]

\* An event that start_prefill or start_decode schedules.
Work == [time_ns : Nat, kind : GpuKind]

PoolType(tiers) ==
    [busy_until : [Gpu -> Nat], in_flight : Flights(tiers),
     waiting : [Stage -> Seq(Request)], events : Seq(Work)]

TraceOK ==
    \A r \in Request :
        /\ trace[r].arrival_ns \in Nat
        /\ trace[r].prompt_tokens \in Tokens
        /\ trace[r].output_tokens \in Nat

LEMMA PoolParts ==
    ASSUME NEW tiers, NEW p \in PoolType(tiers)
    PROVE  /\ p.busy_until \in [Gpu -> Nat]
           /\ p.in_flight \in Flights(tiers)
           /\ DOMAIN p.in_flight \in SUBSET Request
           /\ \A r \in DOMAIN p.in_flight : p.in_flight[r] \in FlightOf(tiers)
           /\ p.waiting \in [Stage -> Seq(Request)]
           /\ p.events \in Seq(Work)
BY DEF PoolType, Flights

\* The stamps that a stage sets are the ones the runner reports, and lie in the
\* order of time.
LEMMA StampedGood ==
    ASSUME NEW tiers, NEW p \in PoolType(tiers), NEW now \in Nat,
           NEW stage \in Stage, NEW r \in DOMAIN p.in_flight, TraceOK
    PROVE  LET t == Stamped(p, now, stage, r)
               d == Duration(p, stage, r)
           IN  /\ d \in Nat
               /\ t \in FlightOf(tiers)
               /\ stage = "Prefill" => t.prefill_done_ns = now + d
               /\ stage = "Decode" => t.finish_ns = now + d
<1> DEFINE t == Stamped(p, now, stage, r)
           d == Duration(p, stage, r)
           u == p.in_flight[r]
<1>1. r \in Request /\ u \in FlightOf(tiers)
  BY PoolParts
<1>2. /\ PrefillTime \in [Tokens -> Nat] /\ DecodeStepTime \in [Tokens -> Nat]
      /\ trace[r].prompt_tokens \in Tokens /\ trace[r].output_tokens \in Nat
  BY <1>1, ServingAssumption DEF TraceOK
<1>3. PrefillTokens(p, r) \in Tokens
  BY <1>1, <1>2 DEF PrefillTokens, FlightOf
<1>4. StepTime(r) \in Nat
  BY <1>2 DEF StepTime
<1>5. d \in Nat
  BY <1>2, <1>3, <1>4 DEF Duration
<1>6. CASE stage = "Prefill"
  <2> DEFINE v == [u EXCEPT !.prefill_start_ns = now]
  <2>1. v \in FlightOf(tiers)
    BY <1>1 DEF FlightOf, When
  <2>2. t = [v EXCEPT !.prefill_done_ns = now + d]
    BY <1>6 DEF Stamped
  <2> HIDE DEF v, d, u
  <2>3. now + d \in When
    BY <1>5 DEF When
  <2>4. [v EXCEPT !.prefill_done_ns = now + d] \in FlightOf(tiers)
    BY <2>1, <2>3 DEF FlightOf
  <2>5. [v EXCEPT !.prefill_done_ns = now + d].prefill_done_ns = now + d
    BY <2>1 DEF FlightOf
  <2> QED
    BY <1>5, <1>6, <2>2, <2>4, <2>5 DEF d
<1>7. CASE stage = "Decode"
  <2> DEFINE v == [u EXCEPT !.decode_start_ns = now]
             w == [v EXCEPT !.first_token_ns = now + StepTime(r)]
  <2>1. v \in FlightOf(tiers)
    BY <1>1 DEF FlightOf, When
  <2>2. t = [w EXCEPT !.finish_ns = now + d]
    BY <1>7 DEF Stamped
  <2>3. w \in FlightOf(tiers)
    <3>1. now + StepTime(r) \in When
      BY <1>4 DEF When
    <3> HIDE DEF v
    <3> QED
      BY <2>1, <3>1 DEF FlightOf
  <2> HIDE DEF v, w, d, u
  <2>4. now + d \in When
    BY <1>5 DEF When
  <2>5. [w EXCEPT !.finish_ns = now + d] \in FlightOf(tiers)
    BY <2>3, <2>4 DEF FlightOf
  <2>6. [w EXCEPT !.finish_ns = now + d].finish_ns = now + d
    BY <2>3 DEF FlightOf
  <2> QED
    BY <1>5, <1>7, <2>2, <2>5, <2>6 DEF d
<1> QED
  BY <1>6, <1>7 DEF Stage

-----------------------------------------------------------------------------
(* Busy times *)

\* One of the first n of gs is g, and one of them is the last, or the first.
TakenIn(gs, n, g) == \E i \in 1 .. n : gs[i] = g

LastIn(gs, n, g) == \E i \in 1 .. n : gs[i] = g /\ \A j \in (i + 1) .. n : gs[j] # g

FirstIn(gs, n, g) == \E i \in 1 .. n : gs[i] = g /\ \A j \in 1 .. (i - 1) : gs[j] # g

LEMMA LastTaken ==
    ASSUME NEW n \in Nat, NEW gs, NEW g, TakenIn(gs, n, g)
    PROVE  LastIn(gs, n, g)
<1> DEFINE S == {i \in 1 .. n : gs[i] = g}
           R == {ij \in S \X S : ij[1] > ij[2]}
<1>1. IsFiniteSet(S)
  <2>1. IsFiniteSet(1 .. n)
    BY FS_Interval
  <2> QED
    BY <2>1, FS_Subset
<1>2. Orders(R, S)
  BY DEF Orders
<1>3. PICK i \in S : \A j \in S : j # i => <<i, j>> \in R
  <2>1. S # {}
    BY DEF TakenIn
  <2> HIDE DEF S, R
  <2> QED
    BY <1>1, <1>2, <2>1, FirstExists
<1>4. ASSUME NEW j \in (i + 1) .. n, gs[j] = g PROVE FALSE
  <2>1. j \in S /\ j # i /\ i \in Int /\ j \in Int /\ j > i
    BY <1>4
  <2>2. <<i, j>> \in R
    BY <1>3, <2>1
  <2> QED
    BY <2>1, <2>2
<1> QED
  BY <1>4 DEF LastIn

LEMMA FirstTaken ==
    ASSUME NEW n \in Nat, NEW gs, NEW g, TakenIn(gs, n, g)
    PROVE  FirstIn(gs, n, g)
<1> DEFINE S == {i \in 1 .. n : gs[i] = g}
           R == {ij \in S \X S : ij[1] < ij[2]}
<1>1. IsFiniteSet(S)
  <2>1. IsFiniteSet(1 .. n)
    BY FS_Interval
  <2> QED
    BY <2>1, FS_Subset
<1>2. Orders(R, S)
  BY DEF Orders
<1>3. PICK i \in S : \A j \in S : j # i => <<i, j>> \in R
  <2>1. S # {}
    BY DEF TakenIn
  <2> HIDE DEF S, R
  <2> QED
    BY <1>1, <1>2, <2>1, FirstExists
<1>4. ASSUME NEW j \in 1 .. (i - 1), gs[j] = g PROVE FALSE
  <2>1. j \in S /\ j # i /\ i \in Int /\ j \in Int /\ j < i
    BY <1>4
  <2>2. <<i, j>> \in R
    BY <1>3, <2>1
  <2> QED
    BY <2>1, <2>2
<1> QED
  BY <1>4 DEF FirstIn

\* A GPU is as busy as it was, or until the end of a piece of work that it took.
BusyRight(b, p, now, stage, rs, gs, n, g) ==
    /\ (\A i \in 1 .. n : gs[i] # g) => b[g] = p.busy_until[g]
    /\ (\E i \in 1 .. n : gs[i] = g) =>
          \E i \in 1 .. n : gs[i] = g /\ b[g] = now + Duration(p, stage, rs[i])

LEMMA BusyAfterGood ==
    ASSUME NEW p, NEW now, NEW stage, NEW rs, NEW gs, NEW n \in Nat, NEW g \in Gpu
    PROVE  BusyRight(BusyAfter(p, now, stage, rs, gs, n),
                     p, now, stage, rs, gs, n, g)
<1> DEFINE b == BusyAfter(p, now, stage, rs, gs, n)
           last == CHOOSE i \in 1 .. n :
                      gs[i] = g /\ \A j \in (i + 1) .. n : gs[j] # g
<1>1. CASE \A i \in 1 .. n : gs[i] # g
  BY <1>1 DEF BusyAfter, BusyRight
<1>2. CASE \E i \in 1 .. n : gs[i] = g
  <2>1. b[g] = now + Duration(p, stage, rs[last])
    BY <1>2 DEF BusyAfter
  <2>2. last \in 1 .. n /\ gs[last] = g
    <3>1. LastIn(gs, n, g)
      BY <1>2, LastTaken DEF TakenIn
    <3> QED
      BY ONLY <3>1 DEF LastIn
  <2> QED
    BY <1>2, <2>1, <2>2 DEF BusyRight
<1> QED
  BY <1>1, <1>2

LEMMA BusyAfterType ==
    ASSUME NEW tiers, NEW p \in PoolType(tiers), NEW now \in Nat,
           NEW stage \in Stage, NEW n \in Nat, NEW rs, NEW gs, TraceOK,
           \A i \in 1 .. n : rs[i] \in DOMAIN p.in_flight
    PROVE  BusyAfter(p, now, stage, rs, gs, n) \in [Gpu -> Nat]
<1> DEFINE b == BusyAfter(p, now, stage, rs, gs, n)
<1>1. DOMAIN b = Gpu /\ b = [g \in Gpu |-> b[g]]
  BY DEF BusyAfter
<1>2. ASSUME NEW g \in Gpu PROVE b[g] \in Nat
  <2>1. p.busy_until[g] \in Nat
    BY PoolParts
  <2>2. \A i \in 1 .. n : Duration(p, stage, rs[i]) \in Nat
    BY StampedGood
  <2>3. BusyRight(b, p, now, stage, rs, gs, n, g)
    BY BusyAfterGood
  <2> HIDE DEF b
  <2> QED
    BY <2>1, <2>2, <2>3 DEF BusyRight
<1> HIDE DEF b
<1>3. b \in [Gpu -> Nat]
  BY <1>1, <1>2
<1> QED
  BY <1>3 DEF b

\* find_idle_gpu_for finds a GPU whenever one is idle.
LEMMA IdleFound ==
    ASSUME NEW busy \in [Gpu -> Nat], NEW now \in Nat, NEW stage \in Stage
    PROVE  /\ FindIdle(busy, now, stage) \subseteq Idle(busy, now, stage)
           /\ Idle(busy, now, stage) \subseteq Gpu
           /\ FindIdle(busy, now, stage) = {} => Idle(busy, now, stage) = {}
<1> DEFINE S == Idle(busy, now, stage)
           R == {gh \in S \X S : \/ busy[gh[1]] < busy[gh[2]]
                                 \/ busy[gh[1]] = busy[gh[2]] /\ gh[1] < gh[2]}
<1>1. FindIdle(busy, now, stage) \subseteq S /\ S \subseteq Gpu
  BY DEF FindIdle, Idle
<1>2. \A g \in S : g \in Nat /\ busy[g] \in Nat
  BY <1>1, ServingAssumption DEF Gpu
<1>3. IsFiniteSet(S)
  <2>1. IsFiniteSet(Gpu)
    BY ServingAssumption, FS_Interval DEF Gpu
  <2> QED
    BY <1>1, <2>1, FS_Subset
<1>4. ASSUME S # {} PROVE FindIdle(busy, now, stage) # {}
  <2> HIDE DEF S
  <2>1. Orders(R, S)
    BY <1>2 DEF Orders
  <2>2. PICK g \in S : \A h \in S : h # g => <<g, h>> \in R
    <3> HIDE DEF R
    <3> QED
      BY <1>3, <1>4, <2>1, FirstExists
  <2>3. ASSUME NEW h \in S
        PROVE  busy[g] < busy[h] \/ (busy[g] = busy[h] /\ g <= h)
    <3>1. g \in Nat /\ h \in Nat
      BY <1>2
    <3>2. CASE h = g
      BY <3>1, <3>2
    <3>3. CASE h # g
      <4>1. <<g, h>> \in R
        BY <2>2, <3>3
      <4> QED
        BY <3>1, <4>1
    <3> QED
      BY <3>2, <3>3
  <2>4. g \in FindIdle(busy, now, stage)
    BY <2>3 DEF FindIdle, S
  <2> QED
    BY <2>4
<1> QED
  BY <1>1, <1>4

-----------------------------------------------------------------------------
(* Pools *)

\* Where a pool holds a request: in a queue, or at work.
WaitsIn(p, stage, r) == \E i \in DOMAIN p.waiting[stage] : p.waiting[stage][i] = r

WorksIn(p, stage, r) ==
    \E i \in DOMAIN p.events :
        p.events[i].kind.request_id = r /\ p.events[i].kind.tag = Done(stage)

HeldIn(p, r) == \E stage \in Stage : WaitsIn(p, stage, r) \/ WorksIn(p, stage, r)

\* No request is in two places.
Apart(p) ==
    /\ \A i, j \in DOMAIN p.events :
          p.events[i].kind.request_id = p.events[j].kind.request_id => i = j
    /\ \A s, t \in Stage : \A i \in DOMAIN p.waiting[s], j \in DOMAIN p.waiting[t] :
          p.waiting[s][i] = p.waiting[t][j] => s = t /\ i = j
    /\ \A i \in DOMAIN p.events, s \in Stage : \A j \in DOMAIN p.waiting[s] :
          p.events[i].kind.request_id # p.waiting[s][j]

\* The event's time is the one its request is stamped with.
OnTime(in_flights, now, ev) ==
    LET r == ev.kind.request_id
    IN  /\ ev.time_ns >= now
        /\ r \in DOMAIN in_flights
        /\ ev.kind.tag = "PrefillDone" => ev.time_ns = in_flights[r].prefill_done_ns
        /\ ev.kind.tag = "DecodeDone" => ev.time_ns = in_flights[r].finish_ns

PoolGood(p, tiers, now) ==
    /\ p \in PoolType(tiers)
    /\ Apart(p)
    /\ \A i \in DOMAIN p.events : OnTime(p.in_flight, now, p.events[i])
    /\ \A r : HeldIn(p, r) => r \in DOMAIN p.in_flight

\* q has the events of p, and maybe more.
Extends(q, p) ==
    /\ DOMAIN p.events \subseteq DOMAIN q.events
    /\ \A i \in DOMAIN p.events : q.events[i] = p.events[i]

\* Work has been scheduled that ends when g is free.
Attends(q, g) ==
    \E i \in DOMAIN q.events :
        /\ q.events[i].kind \in GpuKind
        /\ q.events[i].kind.gpu = g
        /\ q.events[i].time_ns = q.busy_until[g]

LEMMA StageDone ==
    /\ \A stage \in Stage : Done(stage) \in {"PrefillDone", "DecodeDone"}
    /\ \A s, t \in Stage : Done(s) = Done(t) => s = t
    /\ \A tag \in {"PrefillDone", "DecodeDone"} : \E stage \in Stage : tag = Done(stage)
BY DEF Stage, Done

\* One sequence after another.
LEMMA Joined ==
    ASSUME NEW S, NEW s \in Seq(S), NEW t \in Seq(S)
    PROVE  /\ s \o t \in Seq(S)
           /\ Len(s \o t) = Len(s) + Len(t)
           /\ \A i \in 1 .. Len(s) : (s \o t)[i] = s[i]
           /\ \A i \in 1 .. Len(t) : (s \o t)[Len(s) + i] = t[i]
OBVIOUS

\* The events of a pool after rs have been started.
LEMMA StartedEvents ==
    ASSUME NEW tiers, NEW now \in Nat, NEW stage \in Stage,
           NEW p \in PoolType(tiers), TraceOK,
           NEW rs \in Seq(Request), NEW gs \in Seq(Gpu), Len(gs) = Len(rs),
           \A i \in DOMAIN rs : rs[i] \in DOMAIN p.in_flight
    PROVE  LET q == Started(p, now, stage, rs, gs)
               m == Len(p.events)
           IN  /\ m \in Nat /\ DOMAIN p.events = 1 .. m
               /\ DOMAIN rs = 1 .. Len(rs) /\ Len(rs) \in Nat
               /\ q.events \in Seq(Work) /\ DOMAIN q.events = 1 .. (m + Len(rs))
               /\ \A i \in 1 .. m : q.events[i] = p.events[i]
               /\ \A i \in 1 .. Len(rs) :
                     q.events[m + i] =
                        [time_ns |-> now + Duration(p, stage, rs[i]),
                         kind    |-> [tag |-> Done(stage), request_id |-> rs[i],
                                      gpu |-> gs[i]]]
<1> DEFINE q == Started(p, now, stage, rs, gs)
           m == Len(p.events)
           n == Len(rs)
           E(i) == [time_ns |-> now + Duration(p, stage, rs[i]),
                    kind    |-> [tag |-> Done(stage), request_id |-> rs[i],
                                 gpu |-> gs[i]]]
           new == [i \in 1 .. n |-> E(i)]
<1>1. /\ p.events \in Seq(Work) /\ m \in Nat /\ DOMAIN p.events = 1 .. m
      /\ n \in Nat /\ DOMAIN rs = 1 .. n
  BY PoolParts
<1>2. \A i \in 1 .. n : E(i) \in Work
  <2> SUFFICES ASSUME NEW i \in 1 .. n PROVE E(i) \in Work
    OBVIOUS
  <2>1. now + Duration(p, stage, rs[i]) \in Nat
    BY <1>1, StampedGood
  <2>2. rs[i] \in Request /\ gs[i] \in Gpu
    OBVIOUS
  <2>3. [tag |-> Done(stage), request_id |-> rs[i], gpu |-> gs[i]] \in GpuKind
    BY <2>2, StageDone DEF GpuKind
  <2> QED
    BY <2>1, <2>3 DEF Work
<1> HIDE DEF E
<1>3. new \in Seq(Work) /\ Len(new) = n /\ \A i \in 1 .. n : new[i] = E(i)
  BY <1>1, <1>2
<1>4. q.events = p.events \o new
  BY DEF Started, E
<1> HIDE DEF new, q
<1>5. /\ q.events \in Seq(Work)
      /\ Len(q.events) = m + n
      /\ \A i \in 1 .. m : q.events[i] = p.events[i]
      /\ \A i \in 1 .. n : q.events[m + i] = new[i]
  <2>1. p.events \in Seq(Work) /\ Len(p.events) = m
    BY <1>1
  <2>2. new \in Seq(Work) /\ Len(new) = n
    BY <1>3
  <2>3. p.events \o new \in Seq(Work)
    BY ONLY <2>1, <2>2, Joined
  <2>4. Len(p.events \o new) = Len(p.events) + Len(new)
    BY ONLY <2>1, <2>2, Joined
  <2>5. \A i \in 1 .. Len(p.events) : (p.events \o new)[i] = p.events[i]
    BY ONLY <2>1, <2>2, Joined
  <2>6. \A i \in 1 .. Len(new) : (p.events \o new)[Len(p.events) + i] = new[i]
    BY ONLY <2>1, <2>2, Joined
  <2> QED
    BY ONLY <1>4, <2>1, <2>2, <2>3, <2>4, <2>5, <2>6
<1>6. DOMAIN q.events = 1 .. (m + n)
  BY <1>5
<1>7. \A i \in 1 .. n : q.events[m + i] = E(i)
  BY <1>3, <1>5
<1> QED
  BY <1>1, <1>5, <1>6, <1>7 DEF q, E

\* What is left of p in q, which has started rs on gs, and what is new.
StartedRight(q, p, now, stage, rs, gs) ==
    /\ q.waiting = p.waiting
    /\ DOMAIN q.in_flight = DOMAIN p.in_flight
    /\ \A r \in DOMAIN p.in_flight :
          (\A i \in DOMAIN rs : rs[i] # r) => q.in_flight[r] = p.in_flight[r]
    /\ \A i \in DOMAIN rs : q.in_flight[rs[i]] = Stamped(p, now, stage, rs[i])
    /\ q.busy_until = BusyAfter(p, now, stage, rs, gs, Len(rs))

LEMMA StartedFlights ==
    ASSUME NEW tiers, NEW now \in Nat, NEW stage \in Stage,
           NEW p \in PoolType(tiers), TraceOK,
           NEW rs \in Seq(Request), NEW gs \in Seq(Gpu), Len(gs) = Len(rs),
           \A i \in DOMAIN rs : rs[i] \in DOMAIN p.in_flight
    PROVE  /\ Started(p, now, stage, rs, gs) \in PoolType(tiers)
           /\ StartedRight(Started(p, now, stage, rs, gs), p, now, stage, rs, gs)
<1> DEFINE q == Started(p, now, stage, rs, gs)
           D == DOMAIN p.in_flight
           f == [r \in D |-> IF \E i \in DOMAIN rs : rs[i] = r
                             THEN Stamped(p, now, stage, r)
                             ELSE p.in_flight[r]]
           b == BusyAfter(p, now, stage, rs, gs, Len(rs))
<1>1. /\ q.busy_until = b /\ q.in_flight = f /\ q.waiting = p.waiting
      /\ q = [busy_until |-> q.busy_until, in_flight |-> q.in_flight,
              waiting |-> q.waiting, events |-> q.events]
  BY DEF Started
<1>2. q.events \in Seq(Work)
  BY StartedEvents
<1>3. b \in [Gpu -> Nat]
  <2>1. Len(rs) \in Nat /\ DOMAIN rs = 1 .. Len(rs)
    OBVIOUS
  <2> QED
    BY <2>1, BusyAfterType
<1>4. f \in Flights(tiers)
  <2>1. D \in SUBSET Request
    BY PoolParts
  <2>2. \A r \in D : Stamped(p, now, stage, r) \in FlightOf(tiers)
                     /\ p.in_flight[r] \in FlightOf(tiers)
    BY StampedGood, PoolParts
  <2> HIDE DEF D
  <2>3. f \in [D -> FlightOf(tiers)]
    BY <2>2
  <2> HIDE DEF f
  <2> QED
    BY <2>1, <2>3 DEF Flights
<1>5. p.waiting \in [Stage -> Seq(Request)]
  BY PoolParts
<1>6. /\ DOMAIN f = D
      /\ \A r \in D : (\A i \in DOMAIN rs : rs[i] # r) => f[r] = p.in_flight[r]
      /\ \A i \in DOMAIN rs : f[rs[i]] = Stamped(p, now, stage, rs[i])
  OBVIOUS
<1> HIDE DEF q, f, b, D
<1>7. q \in PoolType(tiers)
  BY <1>1, <1>2, <1>3, <1>4, <1>5 DEF PoolType
<1>8. StartedRight(q, p, now, stage, rs, gs)
  BY <1>1, <1>6 DEF StartedRight, b, D
<1> QED
  BY <1>7, <1>8 DEF q

\* q has the work of p and that of rs for the stage, on gs.
AtWorkOn(q, p, stage, rs, gs) ==
    /\ Extends(q, p)
    /\ \A t \in Stage : \A r :
          WorksIn(q, t, r) <=> \/ WorksIn(p, t, r)
                               \/ t = stage /\ \E i \in DOMAIN rs : rs[i] = r
    /\ \A g \in Gpu : (\E i \in DOMAIN rs : gs[i] = g) => Attends(q, g)

\* Starting requests that the pool does not hold adds them to its work, and
\* moves no other.
LEMMA StartedGood ==
    ASSUME NEW tiers, NEW now \in Nat, NEW stage \in Stage,
           NEW p, PoolGood(p, tiers, now), TraceOK,
           NEW rs \in Seq(Request), NEW gs \in Seq(Gpu), Len(gs) = Len(rs),
           \A i \in DOMAIN rs : rs[i] \in DOMAIN p.in_flight /\ ~HeldIn(p, rs[i]),
           \A i, j \in DOMAIN rs : rs[i] = rs[j] => i = j
    PROVE  /\ PoolGood(Started(p, now, stage, rs, gs), tiers, now)
           /\ AtWorkOn(Started(p, now, stage, rs, gs), p, stage, rs, gs)
<1> DEFINE q == Started(p, now, stage, rs, gs)
           m == Len(p.events)
           n == Len(rs)
           New(i) == [time_ns |-> now + Duration(p, stage, rs[i]),
                      kind    |-> [tag |-> Done(stage), request_id |-> rs[i],
                                   gpu |-> gs[i]]]
<1>1. p \in PoolType(tiers)
  BY DEF PoolGood
<1>2. /\ m \in Nat /\ DOMAIN p.events = 1 .. m
      /\ DOMAIN rs = 1 .. n /\ n \in Nat
      /\ q.events \in Seq(Work) /\ DOMAIN q.events = 1 .. (m + n)
      /\ \A i \in 1 .. m : q.events[i] = p.events[i]
      /\ \A i \in 1 .. n : q.events[m + i] = New(i)
  BY <1>1, StartedEvents
<1>3. q \in PoolType(tiers) /\ StartedRight(q, p, now, stage, rs, gs)
  BY <1>1, StartedFlights
<1>4. \A i \in 1 .. n : /\ New(i).time_ns = now + Duration(p, stage, rs[i])
                        /\ New(i).kind.request_id = rs[i]
                        /\ New(i).kind.tag = Done(stage)
                        /\ New(i).kind.gpu = gs[i]
  OBVIOUS
<1> HIDE DEF q, New
\* an event of q is an event of p or the i-th new one
<1>5. ASSUME NEW k \in DOMAIN q.events
      PROVE  \/ k \in DOMAIN p.events
             \/ k - m \in 1 .. n /\ q.events[k] = New(k - m)
  <2>1. CASE k <= m
    BY <1>2, <2>1
  <2>2. CASE ~(k <= m)
    <3>1. k \in Int /\ k - m \in 1 .. n /\ m + (k - m) = k
      BY <1>2, <2>2
    <3> QED
      BY <1>2, <3>1
  <2> QED
    BY <2>1, <2>2
\* the requests of p's events are held by p
<1>6. \A k \in DOMAIN p.events : HeldIn(p, p.events[k].kind.request_id)
  <2> SUFFICES ASSUME NEW k \in DOMAIN p.events
               PROVE  HeldIn(p, p.events[k].kind.request_id)
    OBVIOUS
  <2>1. p.events[k] \in Work
    BY <1>1, PoolParts
  <2>2. PICK s \in Stage : p.events[k].kind.tag = Done(s)
    BY <2>1, StageDone DEF Work, GpuKind
  <2> QED
    BY <2>2 DEF HeldIn, WorksIn
<1>7. Extends(q, p)
  BY <1>2 DEF Extends
<1>8. ASSUME NEW t \in Stage, NEW r
      PROVE  WorksIn(q, t, r) <=> \/ WorksIn(p, t, r)
                                  \/ t = stage /\ \E i \in DOMAIN rs : rs[i] = r
  <2>1. ASSUME WorksIn(p, t, r) PROVE WorksIn(q, t, r)
    BY <1>7, <2>1 DEF WorksIn, Extends
  <2>2. ASSUME t = stage, NEW i \in DOMAIN rs, rs[i] = r PROVE WorksIn(q, t, r)
    <3>1. m + i \in DOMAIN q.events /\ q.events[m + i] = New(i)
      BY <1>2
    <3> QED
      BY <1>2, <1>4, <2>2, <3>1 DEF WorksIn
  <2>3. ASSUME WorksIn(q, t, r)
        PROVE  WorksIn(p, t, r) \/ (t = stage /\ \E i \in DOMAIN rs : rs[i] = r)
    <3>1. PICK k \in DOMAIN q.events : /\ q.events[k].kind.request_id = r
                                       /\ q.events[k].kind.tag = Done(t)
      BY <2>3 DEF WorksIn
    <3>2. CASE k \in DOMAIN p.events
      BY <1>2, <3>1, <3>2 DEF WorksIn
    <3>3. CASE k - m \in 1 .. n /\ q.events[k] = New(k - m)
      <4>1. rs[k - m] = r /\ Done(stage) = Done(t)
        BY <1>4, <3>1, <3>3
      <4> QED
        BY <1>2, <3>3, <4>1, StageDone
    <3> QED
      BY <1>5, <3>2, <3>3
  <2> QED
    BY <2>1, <2>2, <2>3
<1>9. Apart(q)
  <2>1. ASSUME NEW j \in DOMAIN q.events, NEW k \in DOMAIN q.events,
               q.events[j].kind.request_id = q.events[k].kind.request_id
        PROVE  j = k
    <3>1. CASE j \in DOMAIN p.events /\ k \in DOMAIN p.events
      BY <1>2, <2>1, <3>1 DEF PoolGood, Apart
    <3>2. CASE j \in DOMAIN p.events /\ k - m \in 1 .. n /\ q.events[k] = New(k - m)
      <4>1. /\ HeldIn(p, q.events[j].kind.request_id)
            /\ q.events[k].kind.request_id = rs[k - m]
            /\ ~HeldIn(p, rs[k - m])
        BY <1>2, <1>4, <1>6, <3>2
      <4> QED
        BY <2>1, <4>1
    <3>3. CASE k \in DOMAIN p.events /\ j - m \in 1 .. n /\ q.events[j] = New(j - m)
      <4>1. /\ HeldIn(p, q.events[k].kind.request_id)
            /\ q.events[j].kind.request_id = rs[j - m]
            /\ ~HeldIn(p, rs[j - m])
        BY <1>2, <1>4, <1>6, <3>3
      <4> QED
        BY <2>1, <4>1
    <3>4. CASE /\ j - m \in 1 .. n /\ q.events[j] = New(j - m)
               /\ k - m \in 1 .. n /\ q.events[k] = New(k - m)
      <4>1. rs[j - m] = rs[k - m]
        BY <1>4, <2>1, <3>4
      <4>2. j - m = k - m
        BY <1>2, <3>4, <4>1
      <4> QED
        BY <1>2, <4>2
    <3> QED
      BY <1>5, <3>1, <3>2, <3>3, <3>4
  <2>2. \A s, t \in Stage : \A i \in DOMAIN q.waiting[s], j \in DOMAIN q.waiting[t] :
           q.waiting[s][i] = q.waiting[t][j] => s = t /\ i = j
    BY <1>3 DEF PoolGood, Apart, StartedRight
  <2>3. ASSUME NEW k \in DOMAIN q.events, NEW s \in Stage, NEW j \in DOMAIN q.waiting[s]
        PROVE  q.events[k].kind.request_id # q.waiting[s][j]
    <3>1. CASE k \in DOMAIN p.events
      BY <1>2, <1>3, <3>1 DEF PoolGood, Apart, StartedRight
    <3>2. CASE k - m \in 1 .. n /\ q.events[k] = New(k - m)
      <4>1. HeldIn(p, q.waiting[s][j])
        BY <1>3 DEF HeldIn, WaitsIn, StartedRight
      <4> QED
        BY <1>2, <1>4, <3>2, <4>1
    <3> QED
      BY <1>5, <3>1, <3>2
  <2> QED
    BY <2>1, <2>2, <2>3 DEF Apart
<1>10. ASSUME NEW k \in DOMAIN q.events PROVE OnTime(q.in_flight, now, q.events[k])
  <2>1. CASE k \in DOMAIN p.events
    <3> DEFINE r == p.events[k].kind.request_id
    <3>1. /\ OnTime(p.in_flight, now, p.events[k]) /\ q.events[k] = p.events[k]
          /\ HeldIn(p, r)
      BY <1>2, <1>6, <2>1 DEF PoolGood
    <3>2. r \in DOMAIN p.in_flight
      BY <3>1 DEF OnTime
    <3>3. q.in_flight[r] = p.in_flight[r]
      BY <1>3, <3>1, <3>2 DEF StartedRight
    <3> QED
      BY <1>3, <3>1, <3>2, <3>3 DEF OnTime, StartedRight
  <2>2. CASE k - m \in 1 .. n /\ q.events[k] = New(k - m)
    <3> DEFINE r == rs[k - m]
               d == Duration(p, stage, r)
    <3>1. /\ r \in DOMAIN p.in_flight
          /\ q.in_flight[r] = Stamped(p, now, stage, r)
          /\ q.events[k].kind.request_id = r
          /\ q.events[k].time_ns = now + d
          /\ q.events[k].kind.tag = Done(stage)
      BY <1>2, <1>3, <1>4, <2>2 DEF StartedRight
    <3>2. /\ d \in Nat
          /\ stage = "Prefill" => q.in_flight[r].prefill_done_ns = now + d
          /\ stage = "Decode" => q.in_flight[r].finish_ns = now + d
      BY <1>1, <3>1, StampedGood
    <3> HIDE DEF r, d
    <3> QED
      BY <1>3, <3>1, <3>2 DEF OnTime, Done, Stage, StartedRight
  <2> QED
    BY <1>5, <2>1, <2>2
<1>11. ASSUME NEW r, HeldIn(q, r) PROVE r \in DOMAIN q.in_flight
  <2>1. PICK t \in Stage : WaitsIn(q, t, r) \/ WorksIn(q, t, r)
    BY <1>11 DEF HeldIn
  <2>2. CASE WaitsIn(q, t, r)
    <3>1. HeldIn(p, r)
      BY <1>3, <2>2 DEF HeldIn, WaitsIn, StartedRight
    <3> QED
      BY <1>3, <3>1 DEF PoolGood, StartedRight
  <2>3. CASE WorksIn(q, t, r)
    BY <1>3, <1>8, <2>3 DEF PoolGood, HeldIn, StartedRight
  <2> QED
    BY <2>1, <2>2, <2>3
<1>12. ASSUME NEW g \in Gpu, \E i \in DOMAIN rs : gs[i] = g PROVE Attends(q, g)
  <2>1. PICK i \in 1 .. n : /\ gs[i] = g
                            /\ q.busy_until[g] = now + Duration(p, stage, rs[i])
    <3>1. n \in Nat /\ \E i \in 1 .. n : gs[i] = g
      BY <1>2, <1>12
    <3> HIDE DEF n
    <3>2. BusyRight(q.busy_until, p, now, stage, rs, gs, n, g)
      BY <1>3, <3>1, BusyAfterGood DEF StartedRight, n
    <3> QED
      BY <3>1, <3>2 DEF BusyRight
  <2>2. m + i \in DOMAIN q.events /\ q.events[m + i] = New(i)
    BY <1>2
  <2>3. q.events[m + i] \in Work
    BY <1>2, <2>2
  <2>4. q.events[m + i].kind \in GpuKind
    BY <2>3 DEF Work
  <2> QED
    BY <1>4, <2>1, <2>2, <2>4 DEF Attends
<1>13. PoolGood(q, tiers, now)
  BY <1>3, <1>9, <1>10, <1>11 DEF PoolGood
<1> QED
  BY <1>7, <1>8, <1>12, <1>13 DEF q, AtWorkOn

-----------------------------------------------------------------------------
(* start_prefill or the back of the queue *)

\* A GPU that was busy stays so; one whose busy time changes has been taken.
BusyKept(q, p, now) ==
    \A g \in Gpu :
        /\ q.busy_until[g] = p.busy_until[g] \/ Attends(q, g)
        /\ p.busy_until[g] > now => q.busy_until[g] = p.busy_until[g]

\* The pool p with another queue for the stage.
RequeuedRight(q, p, stage, w) ==
    /\ q.busy_until = p.busy_until /\ q.in_flight = p.in_flight
    /\ q.events = p.events
    /\ q.waiting = [p.waiting EXCEPT ![stage] = w]

LEMMA Requeued ==
    ASSUME NEW tiers, NEW p \in PoolType(tiers), NEW stage \in Stage,
           NEW w \in Seq(Request), NEW q, q = [p EXCEPT !.waiting[stage] = w]
    PROVE  q \in PoolType(tiers) /\ RequeuedRight(q, p, stage, w)
<1> DEFINE v == [p.waiting EXCEPT ![stage] = w]
<1>1. v \in [Stage -> Seq(Request)]
  BY PoolParts
<1>2. q = [p EXCEPT !.waiting = v]
  OBVIOUS
<1> HIDE DEF v
<1>3. /\ [p EXCEPT !.waiting = v] \in PoolType(tiers)
      /\ [p EXCEPT !.waiting = v].busy_until = p.busy_until
      /\ [p EXCEPT !.waiting = v].in_flight = p.in_flight
      /\ [p EXCEPT !.waiting = v].events = p.events
      /\ [p EXCEPT !.waiting = v].waiting = v
  BY <1>1 DEF PoolType
<1> QED
  BY <1>2, <1>3 DEF v, RequeuedRight

\* Where StartOrQueue leaves r and everybody else.
QueuedRight(q, p, now, stage, r) ==
    /\ DOMAIN q.in_flight = DOMAIN p.in_flight
    /\ \A s \in DOMAIN p.in_flight \ {r} : q.in_flight[s] = p.in_flight[s]
    /\ Extends(q, p)
    /\ BusyKept(q, p, now)
    /\ \/ q.waiting = p.waiting
       \/ /\ q.waiting = [p.waiting EXCEPT ![stage] = Append(@, r)]
          /\ Idle(q.busy_until, now, stage) = {}
    /\ WaitsIn(q, stage, r) \/ WorksIn(q, stage, r)
    /\ \A t \in Stage : WaitsIn(q, t, r) \/ WorksIn(q, t, r) => t = stage
    /\ \A t \in Stage : \A s : s # r =>
          /\ WaitsIn(q, t, s) <=> WaitsIn(p, t, s)
          /\ WorksIn(q, t, s) <=> WorksIn(p, t, s)

LEMMA AppendParts ==
    ASSUME NEW w \in Seq(Request), NEW r \in Request
    PROVE  /\ Append(w, r) \in Seq(Request)
           /\ DOMAIN w = 1 .. Len(w) /\ Len(w) \in Nat
           /\ DOMAIN Append(w, r) = 1 .. (Len(w) + 1)
           /\ \A i \in DOMAIN w : Append(w, r)[i] = w[i]
           /\ Append(w, r)[Len(w) + 1] = r
OBVIOUS

LEMMA QueueGood ==
    ASSUME NEW tiers, NEW now \in Nat, NEW stage \in Stage,
           NEW p, PoolGood(p, tiers, now), NEW r \in DOMAIN p.in_flight,
           ~HeldIn(p, r), Idle(p.busy_until, now, stage) = {},
           NEW q, q = [p EXCEPT !.waiting[stage] = Append(@, r)]
    PROVE  PoolGood(q, tiers, now) /\ QueuedRight(q, p, now, stage, r)
<1> DEFINE w == p.waiting[stage]
           v == Append(w, r)
<1>1. p \in PoolType(tiers) /\ r \in Request /\ w \in Seq(Request)
  BY PoolParts DEF PoolGood
<1>2. /\ v \in Seq(Request)
      /\ DOMAIN w = 1 .. Len(w) /\ Len(w) \in Nat
      /\ DOMAIN v = 1 .. (Len(w) + 1)
      /\ \A i \in DOMAIN w : v[i] = w[i]
      /\ v[Len(w) + 1] = r
  BY <1>1, AppendParts
<1>3. /\ q \in PoolType(tiers)
      /\ q.busy_until = p.busy_until /\ q.in_flight = p.in_flight
      /\ q.events = p.events
      /\ q.waiting = [p.waiting EXCEPT ![stage] = v]
  <2>1. q = [p EXCEPT !.waiting[stage] = v]
    OBVIOUS
  <2>2. v \in Seq(Request)
    BY <1>2
  <2> HIDE DEF v
  <2>3. q \in PoolType(tiers) /\ RequeuedRight(q, p, stage, v)
    BY <1>1, <2>1, <2>2, Requeued
  <2> QED
    BY <2>3 DEF RequeuedRight
<1>4. p.waiting \in [Stage -> Seq(Request)]
  BY <1>1, PoolParts
<1> HIDE DEF w, v
<1>5. q.waiting[stage] = v /\ p.waiting[stage] = w
      /\ \A t \in Stage \ {stage} : q.waiting[t] = p.waiting[t]
  BY <1>3, <1>4 DEF w
<1>6. \A t \in Stage : \A s : WorksIn(q, t, s) <=> WorksIn(p, t, s)
  BY <1>3 DEF WorksIn
<1>7. \A t \in Stage : \A s :
         WaitsIn(q, t, s) <=> WaitsIn(p, t, s) \/ (t = stage /\ s = r)
  <2> SUFFICES ASSUME NEW t \in Stage, NEW s
               PROVE  WaitsIn(q, t, s) <=> WaitsIn(p, t, s) \/ (t = stage /\ s = r)
    OBVIOUS
  <2>1. CASE t # stage
    BY <1>5, <2>1 DEF WaitsIn
  <2>2. CASE t = stage
    <3>1. ASSUME WaitsIn(q, stage, s) PROVE WaitsIn(p, stage, s) \/ s = r
      <4>1. PICK i \in DOMAIN v : v[i] = s
        BY <1>5, <3>1 DEF WaitsIn
      <4> QED
        BY <1>2, <1>5, <4>1 DEF WaitsIn
    <3>2. ASSUME WaitsIn(p, stage, s) PROVE WaitsIn(q, stage, s)
      BY <1>2, <1>5, <3>2 DEF WaitsIn
    <3>3. ASSUME s = r PROVE WaitsIn(q, stage, s)
      BY <1>2, <1>5, <3>3 DEF WaitsIn
    <3> QED
      BY <2>2, <3>1, <3>2, <3>3
  <2> QED
    BY <2>1, <2>2
<1>8. \A t \in Stage : \A i \in DOMAIN q.waiting[t] :
         \/ i \in DOMAIN p.waiting[t] /\ q.waiting[t][i] = p.waiting[t][i]
         \/ t = stage /\ i = Len(w) + 1 /\ q.waiting[t][i] = r
  BY <1>2, <1>5
<1>9. \A t \in Stage : \A i \in DOMAIN p.waiting[t] : p.waiting[t][i] # r
  BY DEF HeldIn, WaitsIn
<1>10. Apart(q)
  <2>1. ASSUME NEW s \in Stage, NEW t \in Stage,
               NEW i \in DOMAIN q.waiting[s], NEW j \in DOMAIN q.waiting[t],
               q.waiting[s][i] = q.waiting[t][j]
        PROVE  s = t /\ i = j
    BY <1>8, <1>9, <2>1 DEF PoolGood, Apart
  <2>2. ASSUME NEW i \in DOMAIN p.events PROVE p.events[i].kind.request_id # r
    <3>1. p.events[i] \in Work
      BY <1>1, PoolParts
    <3>2. PICK s \in Stage : p.events[i].kind.tag = Done(s)
      BY <3>1, StageDone DEF Work, GpuKind
    <3> QED
      BY <3>2 DEF HeldIn, WorksIn
  <2>3. ASSUME NEW i \in DOMAIN q.events, NEW s \in Stage,
               NEW j \in DOMAIN q.waiting[s]
        PROVE  q.events[i].kind.request_id # q.waiting[s][j]
    BY <1>3, <1>8, <2>2 DEF PoolGood, Apart
  <2> QED
    BY <1>3, <2>1, <2>3 DEF PoolGood, Apart
<1>11. PoolGood(q, tiers, now)
  BY <1>3, <1>6, <1>7, <1>10 DEF PoolGood, HeldIn
<1>12. BusyKept(q, p, now) /\ Extends(q, p)
  BY <1>3 DEF BusyKept, Extends
<1>13. QueuedRight(q, p, now, stage, r)
  <2>1. q.waiting = [p.waiting EXCEPT ![stage] = Append(@, r)]
    BY <1>3 DEF v, w
  <2>2. \A t \in Stage : WaitsIn(q, t, r) \/ WorksIn(q, t, r) => t = stage
    BY <1>6, <1>7 DEF HeldIn
  <2> QED
    BY <1>3, <1>6, <1>7, <1>12, <2>1, <2>2 DEF QueuedRight
<1> QED
  BY <1>11, <1>13

LEMMA StartGood ==
    ASSUME NEW tiers, NEW now \in Nat, NEW stage \in Stage, TraceOK,
           NEW p, PoolGood(p, tiers, now), NEW r \in DOMAIN p.in_flight,
           ~HeldIn(p, r), NEW g \in Idle(p.busy_until, now, stage),
           NEW q, q = Started(p, now, stage, <<r>>, <<g>>)
    PROVE  PoolGood(q, tiers, now) /\ QueuedRight(q, p, now, stage, r)
<1> DEFINE rs == <<r>>
           gs == <<g>>
<1>1. p \in PoolType(tiers) /\ r \in Request /\ g \in Gpu
      /\ p.busy_until \in [Gpu -> Nat] /\ p.busy_until[g] <= now
  BY PoolParts DEF PoolGood, Idle
<1>2. /\ rs \in Seq(Request) /\ gs \in Seq(Gpu)
      /\ Len(rs) = 1 /\ Len(gs) = 1 /\ DOMAIN rs = {1}
      /\ rs[1] = r /\ gs[1] = g
  BY <1>1
<1>3. q = Started(p, now, stage, rs, gs)
  OBVIOUS
<1> HIDE DEF rs, gs
<1>4. q \in PoolType(tiers) /\ StartedRight(q, p, now, stage, rs, gs)
  BY <1>1, <1>2, <1>3, StartedFlights
<1>5. /\ PoolGood(q, tiers, now)
      /\ Extends(q, p)
      /\ \A t \in Stage : \A s : WorksIn(q, t, s) <=>
            WorksIn(p, t, s) \/ (t = stage /\ \E i \in DOMAIN rs : rs[i] = s)
      /\ \A h \in Gpu : (\E i \in DOMAIN rs : gs[i] = h) => Attends(q, h)
  <2>1. \A i \in DOMAIN rs : rs[i] \in DOMAIN p.in_flight /\ ~HeldIn(p, rs[i])
    BY <1>2
  <2>2. \A i, j \in DOMAIN rs : rs[i] = rs[j] => i = j
    BY <1>2
  <2>3. PoolGood(q, tiers, now) /\ AtWorkOn(q, p, stage, rs, gs)
    BY <1>2, <1>3, <2>1, <2>2, StartedGood
  <2> QED
    BY <2>3 DEF AtWorkOn
<1>6. BusyKept(q, p, now)
  <2> SUFFICES ASSUME NEW h \in Gpu
               PROVE  /\ q.busy_until[h] = p.busy_until[h] \/ Attends(q, h)
                      /\ p.busy_until[h] > now => q.busy_until[h] = p.busy_until[h]
    BY DEF BusyKept
  <2>1. CASE h = g
    <3>1. \E i \in DOMAIN rs : gs[i] = g
      BY <1>2
    <3>2. Attends(q, g)
      BY <1>1, <1>5, <3>1
    <3>3. ~(p.busy_until[g] > now)
      <4>1. p.busy_until[g] \in Nat
        BY <1>1
      <4> QED
        BY <1>1, <4>1
    <3> QED
      BY <2>1, <3>2, <3>3
  <2>2. CASE h # g
    <3>1. BusyRight(q.busy_until, p, now, stage, rs, gs, 1, h)
      BY <1>2, <1>4, BusyAfterGood DEF StartedRight
    <3> QED
      BY <1>2, <2>2, <3>1 DEF BusyRight
  <2> QED
    BY <2>1, <2>2
<1>7. \A t \in Stage : \A s : WorksIn(q, t, s) <=>
         WorksIn(p, t, s) \/ (t = stage /\ s = r)
  BY <1>2, <1>5
<1>8. q.waiting = p.waiting /\ \A t \in Stage : \A s : WaitsIn(q, t, s) <=> WaitsIn(p, t, s)
  BY <1>4 DEF StartedRight, WaitsIn
<1>9. /\ DOMAIN q.in_flight = DOMAIN p.in_flight
      /\ \A s \in DOMAIN p.in_flight \ {r} : q.in_flight[s] = p.in_flight[s]
  BY <1>2, <1>4 DEF StartedRight
<1>10. \A t \in Stage : WaitsIn(q, t, r) \/ WorksIn(q, t, r) => t = stage
  BY <1>7, <1>8 DEF HeldIn
<1> QED
  BY <1>5, <1>6, <1>7, <1>8, <1>9, <1>10 DEF QueuedRight

LEMMA StartOrQueueGood ==
    ASSUME NEW tiers, NEW now \in Nat, NEW stage \in Stage, TraceOK,
           NEW p, PoolGood(p, tiers, now), NEW r \in DOMAIN p.in_flight,
           ~HeldIn(p, r), NEW q, q = StartOrQueue(p, now, stage, r)
    PROVE  PoolGood(q, tiers, now) /\ QueuedRight(q, p, now, stage, r)
<1> DEFINE F == FindIdle(p.busy_until, now, stage)
<1>1. p.busy_until \in [Gpu -> Nat]
  BY PoolParts DEF PoolGood
<1>2. /\ F \subseteq Idle(p.busy_until, now, stage)
      /\ F = {} => Idle(p.busy_until, now, stage) = {}
  BY <1>1, IdleFound
<1>3. CASE F = {}
  <2>1. q = [p EXCEPT !.waiting[stage] = Append(@, r)]
    BY <1>3 DEF StartOrQueue
  <2> QED
    BY <1>2, <1>3, <2>1, QueueGood
<1>4. CASE F # {}
  <2> DEFINE g == CHOOSE g \in F : TRUE
  <2>1. g \in F /\ q = Started(p, now, stage, <<r>>, <<g>>)
    BY <1>4 DEF StartOrQueue
  <2> HIDE DEF g
  <2> QED
    BY <1>2, <2>1, StartGood
<1> QED
  BY <1>3, <1>4

-----------------------------------------------------------------------------
(* The try_assign loops *)

LEMMA SubSeqParts ==
    ASSUME NEW S, NEW w \in Seq(S), NEW n \in 0 .. Len(w)
    PROVE  /\ SubSeq(w, 1, n) \in Seq(S) /\ SubSeq(w, n + 1, Len(w)) \in Seq(S)
           /\ DOMAIN w = 1 .. Len(w) /\ Len(w) \in Nat
           /\ Len(SubSeq(w, 1, n)) = n /\ DOMAIN SubSeq(w, 1, n) = 1 .. n
           /\ \A i \in 1 .. n : SubSeq(w, 1, n)[i] = w[i]
           /\ DOMAIN SubSeq(w, n + 1, Len(w)) = 1 .. (Len(w) - n)
           /\ \A i \in 1 .. (Len(w) - n) : SubSeq(w, n + 1, Len(w))[i] = w[n + i]
           /\ n = Len(w) => SubSeq(w, n + 1, Len(w)) = <<>>
<1>1. n \in Nat /\ Len(w) \in Nat /\ n <= Len(w) /\ DOMAIN w = 1 .. Len(w)
  OBVIOUS
<1>2. /\ SubSeq(w, 1, n) \in Seq(S)
      /\ Len(SubSeq(w, 1, n)) = n /\ DOMAIN SubSeq(w, 1, n) = 1 .. n
      /\ \A i \in 1 .. n : SubSeq(w, 1, n)[i] = w[i]
  BY <1>1
<1>3. SubSeq(w, n + 1, Len(w)) \in Seq(S)
  BY <1>1
<1>4. Len(SubSeq(w, n + 1, Len(w))) = Len(w) - n
  <2> DEFINE m == n + 1
             l == Len(w)
  <2>1. m \in Int /\ l \in Int /\ \A i \in m .. l : w[i] \in S
    BY <1>1
  <2>2. n <= l /\ l \in Nat
    BY <1>1
  <2> HIDE DEF l
  <2>3. (IF m <= l THEN l - m + 1 ELSE 0) = l - n
    <3>1. CASE n < l
      BY <1>1, <2>2, <3>1
    <3>2. CASE n = l
      BY <1>1, <3>2
    <3> QED
      BY <1>1, <2>2, <3>1, <3>2
  <2> HIDE DEF m
  <2>4. Len(SubSeq(w, m, l)) = IF m <= l THEN l - m + 1 ELSE 0
    BY <2>1, SubSeqProperties
  <2>5. Len(SubSeq(w, m, l)) = l - n
    BY <2>3, <2>4
  <2> QED
    BY <2>5 DEF m, l
<1>5. DOMAIN SubSeq(w, n + 1, Len(w)) = 1 .. (Len(w) - n)
  BY <1>3, <1>4
<1>6. \A i \in 1 .. (Len(w) - n) : SubSeq(w, n + 1, Len(w))[i] = w[n + i]
  BY <1>1
<1>7. n = Len(w) => SubSeq(w, n + 1, Len(w)) = <<>>
  BY <1>3, <1>4
<1> QED
  BY <1>1, <1>2, <1>3, <1>5, <1>6, <1>7

\* The first n of p's queue for the stage have left it.
FrontTaken(q, p, stage, n) ==
    /\ q.busy_until = p.busy_until /\ q.in_flight = p.in_flight
    /\ q.events = p.events
    /\ q.waiting = [p.waiting EXCEPT ![stage] = SubSeq(@, n + 1, Len(@))]
    /\ \A t \in Stage : \A s : WorksIn(q, t, s) <=> WorksIn(p, t, s)
    /\ \A t \in Stage \ {stage} : \A s : WaitsIn(q, t, s) <=> WaitsIn(p, t, s)
    /\ \A s : WaitsIn(q, stage, s) =>
          \E i \in (n + 1) .. Len(p.waiting[stage]) : p.waiting[stage][i] = s
    /\ \A i \in (n + 1) .. Len(p.waiting[stage]) :
          WaitsIn(q, stage, p.waiting[stage][i])

LEMMA FrontTakenGood ==
    ASSUME NEW tiers, NEW now \in Nat, NEW stage \in Stage,
           NEW p, PoolGood(p, tiers, now), NEW n \in 0 .. Len(p.waiting[stage]),
           NEW q, q = [p EXCEPT !.waiting[stage] = SubSeq(@, n + 1, Len(@))]
    PROVE  PoolGood(q, tiers, now) /\ FrontTaken(q, p, stage, n)
<1> DEFINE w == p.waiting[stage]
           v == SubSeq(w, n + 1, Len(w))
<1>1. p \in PoolType(tiers) /\ p.waiting \in [Stage -> Seq(Request)]
      /\ w \in Seq(Request)
  BY PoolParts DEF PoolGood
<1>2. /\ v \in Seq(Request)
      /\ DOMAIN w = 1 .. Len(w) /\ Len(w) \in Nat /\ n \in Nat /\ n <= Len(w)
      /\ DOMAIN v = 1 .. (Len(w) - n)
      /\ \A i \in 1 .. (Len(w) - n) : v[i] = w[n + i]
  BY <1>1, SubSeqParts
<1>3. q \in PoolType(tiers) /\ RequeuedRight(q, p, stage, v)
  <2>1. q = [p EXCEPT !.waiting[stage] = v]
    OBVIOUS
  <2> HIDE DEF v
  <2> QED
    BY <1>1, <1>2, <2>1, Requeued
<1>4. q.waiting = [p.waiting EXCEPT ![stage] = SubSeq(@, n + 1, Len(@))]
  BY <1>3 DEF RequeuedRight
<1> HIDE DEF v, w
<1>5. q.waiting[stage] = v /\ p.waiting[stage] = w
      /\ \A t \in Stage \ {stage} : q.waiting[t] = p.waiting[t]
  BY <1>1, <1>3 DEF RequeuedRight, w
\* what is in q's queues is in p's
<1>6. \A i \in DOMAIN v : n + i \in (n + 1) .. Len(w) /\ n + i \in DOMAIN w
                          /\ v[i] = w[n + i]
  BY <1>2
<1>7. \A i \in (n + 1) .. Len(w) : i - n \in DOMAIN v /\ v[i - n] = w[i]
  <2> SUFFICES ASSUME NEW i \in (n + 1) .. Len(w)
               PROVE  i - n \in DOMAIN v /\ v[i - n] = w[i]
    OBVIOUS
  <2>1. i - n \in 1 .. (Len(w) - n) /\ n + (i - n) = i
    BY <1>2
  <2> QED
    BY <1>2, <2>1
<1>8. FrontTaken(q, p, stage, n)
  <2>1. \A s : WaitsIn(q, stage, s) =>
          \E i \in (n + 1) .. Len(p.waiting[stage]) : p.waiting[stage][i] = s
    BY <1>5, <1>6 DEF WaitsIn
  <2>2. \A i \in (n + 1) .. Len(p.waiting[stage]) :
          WaitsIn(q, stage, p.waiting[stage][i])
    BY <1>5, <1>7 DEF WaitsIn
  <2>3. \A t \in Stage : \A s : WorksIn(q, t, s) <=> WorksIn(p, t, s)
    BY <1>3 DEF WorksIn, RequeuedRight
  <2>4. \A t \in Stage \ {stage} : \A s : WaitsIn(q, t, s) <=> WaitsIn(p, t, s)
    BY <1>5 DEF WaitsIn
  <2> QED
    BY <1>3, <1>4, <2>1, <2>2, <2>3, <2>4 DEF FrontTaken, RequeuedRight
<1>9. Apart(q)
  <2> DEFINE At(t, i) == IF t = stage THEN n + i ELSE i
  <2>1. \A t \in Stage : \A i \in DOMAIN q.waiting[t] :
           /\ At(t, i) \in DOMAIN p.waiting[t]
           /\ q.waiting[t][i] = p.waiting[t][At(t, i)]
    BY <1>5, <1>6
  <2>2. ASSUME NEW s \in Stage, NEW t \in Stage,
               NEW i \in DOMAIN q.waiting[s], NEW j \in DOMAIN q.waiting[t],
               q.waiting[s][i] = q.waiting[t][j]
        PROVE  s = t /\ i = j
    <3>1. s = t /\ At(s, i) = At(t, j)
      <4> HIDE DEF At
      <4> QED
        BY <2>1, <2>2 DEF PoolGood, Apart
    <3>2. CASE s = stage
      <4>1. i \in Int /\ j \in Int /\ n + i = n + j
        BY <1>2, <1>5, <3>1, <3>2
      <4> QED
        BY <1>2, <3>1, <4>1
    <3>3. CASE s # stage
      BY <3>1, <3>3
    <3> QED
      BY <3>2, <3>3
  <2> HIDE DEF At
  <2>3. ASSUME NEW i \in DOMAIN q.events, NEW s \in Stage, NEW j \in DOMAIN q.waiting[s]
        PROVE  q.events[i].kind.request_id # q.waiting[s][j]
    BY <1>3, <2>1 DEF PoolGood, Apart, RequeuedRight
  <2>4. \A i, j \in DOMAIN q.events :
           q.events[i].kind.request_id = q.events[j].kind.request_id => i = j
    BY <1>3 DEF PoolGood, Apart, RequeuedRight
  <2> QED
    BY <2>2, <2>3, <2>4 DEF Apart
<1>10. \A t \in Stage : \A s : WaitsIn(q, t, s) => WaitsIn(p, t, s)
  BY <1>5, <1>6 DEF WaitsIn
<1>11. PoolGood(q, tiers, now)
  <2>1. \A r : HeldIn(q, r) => HeldIn(p, r)
    BY <1>8, <1>10 DEF HeldIn, FrontTaken
  <2> QED
    BY <1>3, <1>9, <2>1 DEF PoolGood, RequeuedRight
<1> QED
  BY <1>8, <1>11

\* Busy times depend on the durations alone.
LEMMA BusyAfterSame ==
    ASSUME NEW p, NEW q, NEW now, NEW stage, NEW rs, NEW ss, NEW gs, NEW n \in Nat,
           q.busy_until = p.busy_until,
           \A i \in 1 .. n : Duration(q, stage, ss[i]) = Duration(p, stage, rs[i])
    PROVE  BusyAfter(q, now, stage, ss, gs, n) = BusyAfter(p, now, stage, rs, gs, n)
<1> DEFINE last(g) == CHOOSE i \in 1 .. n :
                         gs[i] = g /\ \A j \in (i + 1) .. n : gs[j] # g
           B(x, xs, g) == IF \E i \in 1 .. n : gs[i] = g
                          THEN now + Duration(x, stage, xs[last(g)])
                          ELSE x.busy_until[g]
<1>1. ASSUME NEW g \in Gpu PROVE B(q, ss, g) = B(p, rs, g)
  <2>1. CASE \E i \in 1 .. n : gs[i] = g
    <3>1. last(g) \in 1 .. n
      <4>1. LastIn(gs, n, g)
        BY <2>1, LastTaken DEF TakenIn
      <4> QED
        BY ONLY <4>1 DEF LastIn
    <3> HIDE DEF last
    <3>2. Duration(q, stage, ss[last(g)]) = Duration(p, stage, rs[last(g)])
      BY <3>1
    <3> QED
      BY <2>1, <3>2
  <2>2. CASE ~\E i \in 1 .. n : gs[i] = g
    BY <2>2
  <2> QED
    BY <2>1, <2>2
<1>2. /\ BusyAfter(q, now, stage, ss, gs, n) = [g \in Gpu |-> B(q, ss, g)]
      /\ BusyAfter(p, now, stage, rs, gs, n) = [g \in Gpu |-> B(p, rs, g)]
  BY DEF BusyAfter
<1> HIDE DEF B
<1> QED
  BY <1>1, <1>2

\* What a try_assign loop leaves behind: some of the queue's front at work, the
\* rest and everybody else where they were, and nothing more that it could do.
TriedRight(q, p, now, stage) ==
    /\ DOMAIN q.in_flight = DOMAIN p.in_flight
    /\ \A s \in DOMAIN p.in_flight :
          ~WaitsIn(p, stage, s) => q.in_flight[s] = p.in_flight[s]
    /\ \E n \in 0 .. Len(p.waiting[stage]) :
          q.waiting = [p.waiting EXCEPT ![stage] = SubSeq(@, n + 1, Len(@))]
    /\ Extends(q, p)
    /\ BusyKept(q, p, now)
    /\ \A t \in Stage : \A s :
          /\ WaitsIn(q, t, s) => WaitsIn(p, t, s)
          /\ WaitsIn(p, t, s) =>
                WaitsIn(q, t, s) \/ (t = stage /\ WorksIn(q, t, s))
          /\ WorksIn(p, t, s) => WorksIn(q, t, s)
          /\ WorksIn(q, t, s) =>
                WorksIn(p, t, s) \/ (t = stage /\ WaitsIn(p, t, s))
    /\ q.waiting[stage] = <<>> \/ Idle(q.busy_until, now, stage) = {}

\* The request s has been left alone.
Unmoved(q, p, s) ==
    /\ q.in_flight[s] = p.in_flight[s]
    /\ \A t \in Stage : /\ WaitsIn(q, t, s) <=> WaitsIn(p, t, s)
                        /\ WorksIn(q, t, s) <=> WorksIn(p, t, s)

\* The request s waited for the stage, and has been started.
TakenUp(q, p, now, stage, s) ==
    /\ WaitsIn(p, stage, s) /\ WorksIn(q, stage, s)
    /\ q.in_flight[s] = Stamped(p, now, stage, s)

Restamped(q, p, now) ==
    \A s \in DOMAIN p.in_flight :
        Unmoved(q, p, s) \/ \E t \in Stage : TakenUp(q, p, now, t, s)

LEMMA TryAssignGood ==
    ASSUME NEW tiers, NEW now \in Nat, NEW stage \in Stage, TraceOK,
           NEW p, PoolGood(p, tiers, now), NEW q \in TryAssign(p, now, stage)
    PROVE  /\ PoolGood(q, tiers, now) /\ TriedRight(q, p, now, stage)
           /\ Restamped(q, p, now)
<1> DEFINE w == p.waiting[stage]
           BA(gs, n) == BusyAfter(p, now, stage, w, gs, n)
<1>1. p \in PoolType(tiers) /\ p.waiting \in [Stage -> Seq(Request)]
      /\ w \in Seq(Request) /\ p.busy_until \in [Gpu -> Nat]
  BY PoolParts DEF PoolGood
<1>2. PICK gs \in Assignments(p, now, stage) :
         q = Started([p EXCEPT !.waiting[stage] = SubSeq(@, Len(gs) + 1, Len(@))],
                     now, stage, SubSeq(w, 1, Len(gs)), gs)
  BY DEF TryAssign
<1>3. PICK n \in 0 .. Len(w) : gs \in [1 .. n -> Gpu]
  BY <1>2 DEF Assignments
<1>4. /\ gs \in Seq(Gpu) /\ Len(gs) = n /\ n \in Nat
      /\ \A i \in 1 .. n : gs[i] \in FindIdle(BA(gs, i - 1), now, stage)
      /\ n < Len(w) => FindIdle(BA(gs, n), now, stage) = {}
  <2>1. n \in Nat
    BY <1>1
  <2>2. gs \in Seq(Gpu) /\ Len(gs) = n
    BY <1>3, <2>1
  <2> QED
    BY <1>2, <2>1, <2>2 DEF Assignments
<1> DEFINE rs == SubSeq(w, 1, n)
           p1 == [p EXCEPT !.waiting[stage] = SubSeq(@, n + 1, Len(@))]
<1>5. /\ rs \in Seq(Request) /\ Len(rs) = n /\ DOMAIN rs = 1 .. n
      /\ DOMAIN w = 1 .. Len(w) /\ Len(w) \in Nat /\ n <= Len(w)
      /\ \A i \in 1 .. n : rs[i] = w[i] /\ i \in DOMAIN w
      /\ SubSeq(w, n + 1, Len(w)) = <<>> \/ n < Len(w)
  BY <1>1, SubSeqParts
<1>6. PoolGood(p1, tiers, now) /\ FrontTaken(p1, p, stage, n)
  <2> HIDE DEF p1
  <2>1. p1 = [p EXCEPT !.waiting[stage] = SubSeq(@, n + 1, Len(@))]
    BY DEF p1
  <2> QED
    BY <2>1, FrontTakenGood
<1>7. q = Started(p1, now, stage, rs, gs)
  BY <1>2, <1>4
<1> HIDE DEF p1, rs
<1>8. p1 \in PoolType(tiers)
  BY <1>6 DEF PoolGood
\* who is to be started is in no place of p1
<1>9. /\ \A i \in DOMAIN rs : rs[i] \in DOMAIN p1.in_flight /\ ~HeldIn(p1, rs[i])
      /\ \A i, j \in DOMAIN rs : rs[i] = rs[j] => i = j
  <2>1. \A i, j \in DOMAIN rs : rs[i] = rs[j] => i = j
    BY <1>5 DEF PoolGood, Apart
  <2>2. ASSUME NEW i \in DOMAIN rs PROVE rs[i] \in DOMAIN p1.in_flight
    <3>1. WaitsIn(p, stage, rs[i])
      BY <1>5 DEF WaitsIn
    <3> QED
      BY <1>6, <3>1 DEF PoolGood, HeldIn, FrontTaken
  <2>3. ASSUME NEW i \in DOMAIN rs, HeldIn(p1, rs[i]) PROVE FALSE
    <3>0. i \in 1 .. n /\ i \in DOMAIN w /\ rs[i] = w[i]
      BY <1>5
    <3>1. PICK t \in Stage : WaitsIn(p1, t, rs[i]) \/ WorksIn(p1, t, rs[i])
      BY <2>3 DEF HeldIn
    <3>2. CASE WorksIn(p1, t, rs[i])
      BY <1>6, <3>0, <3>2 DEF PoolGood, Apart, WorksIn, FrontTaken
    <3>3. CASE WaitsIn(p1, t, rs[i]) /\ t # stage
      <4>1. WaitsIn(p, t, rs[i])
        BY <1>6, <3>3 DEF FrontTaken
      <4> QED
        BY <3>0, <3>3, <4>1 DEF PoolGood, Apart, WaitsIn
    <3>4. CASE WaitsIn(p1, stage, rs[i])
      <4>1. PICK j \in (n + 1) .. Len(w) : w[j] = rs[i]
        BY <1>6, <3>4 DEF FrontTaken
      <4>2. j \in DOMAIN w /\ j # i
        BY <1>5, <3>0
      <4> QED
        BY <3>0, <4>1, <4>2 DEF PoolGood, Apart
    <3> QED
      BY <3>1, <3>2, <3>3, <3>4
  <2> QED
    BY <2>1, <2>2, <2>3
<1>10. PoolGood(q, tiers, now) /\ AtWorkOn(q, p1, stage, rs, gs)
  BY <1>4, <1>5, <1>6, <1>7, <1>9, StartedGood
<1>11. StartedRight(q, p1, now, stage, rs, gs)
  BY <1>4, <1>5, <1>7, <1>8, <1>9, StartedFlights
<1>12. q.busy_until = BA(gs, n) /\ BA(gs, n) \in [Gpu -> Nat]
  <2>1. \A i \in 1 .. n : Duration(p1, stage, rs[i]) = Duration(p, stage, w[i])
    BY <1>5, <1>6 DEF Duration, PrefillTokens, FrontTaken
  <2>2. p1.busy_until = p.busy_until
    BY <1>6 DEF FrontTaken
  <2>3. BusyAfter(p1, now, stage, rs, gs, n) = BA(gs, n)
    <3> HIDE DEF w
    <3> QED
      BY <1>4, <2>1, <2>2, BusyAfterSame
  <2>4. q.busy_until = BusyAfter(p1, now, stage, rs, gs, n)
    BY <1>5, <1>11 DEF StartedRight
  <2>5. \A i \in 1 .. n : rs[i] \in DOMAIN p1.in_flight
    BY <1>5, <1>9
  <2>6. BusyAfter(p1, now, stage, rs, gs, n) \in [Gpu -> Nat]
    BY <1>4, <1>8, <2>5, BusyAfterType
  <2> QED
    BY <2>3, <2>4, <2>6
<1>13. BusyKept(q, p, now)
  <2> SUFFICES ASSUME NEW g \in Gpu
               PROVE  /\ q.busy_until[g] = p.busy_until[g] \/ Attends(q, g)
                      /\ p.busy_until[g] > now => q.busy_until[g] = p.busy_until[g]
    BY DEF BusyKept
  <2> HIDE DEF w
  <2>1. CASE \A i \in 1 .. n : gs[i] # g
    <3>1. BusyRight(BA(gs, n), p, now, stage, w, gs, n, g)
      BY <1>4, BusyAfterGood
    <3> QED
      BY <1>12, <2>1, <3>1 DEF BusyRight
  <2>2. CASE \E i \in 1 .. n : gs[i] = g
    <3>1. Attends(q, g)
      BY <1>5, <1>10, <2>2 DEF AtWorkOn
    <3>2. PICK i \in 1 .. n : gs[i] = g /\ \A j \in 1 .. (i - 1) : gs[j] # g
      <4>1. FirstIn(gs, n, g)
        BY <1>4, <2>2, FirstTaken DEF TakenIn
      <4> QED
        BY ONLY <4>1 DEF FirstIn
    <3>3. i - 1 \in Nat
      OBVIOUS
    <3>4. BA(gs, i - 1)[g] = p.busy_until[g]
      <4> DEFINE m == i - 1
      <4>1. m \in Nat /\ \A j \in 1 .. m : gs[j] # g
        BY <3>2, <3>3
      <4> HIDE DEF m
      <4>2. BusyRight(BA(gs, m), p, now, stage, w, gs, m, g)
        BY <4>1, BusyAfterGood
      <4>3. BA(gs, m)[g] = p.busy_until[g]
        BY <4>1, <4>2 DEF BusyRight
      <4> QED
        BY <4>3 DEF m
    <3>5. BA(gs, i - 1)[g] <= now
      BY <1>4, <3>2 DEF FindIdle, Idle
    <3>6. p.busy_until[g] \in Nat /\ p.busy_until[g] <= now
      BY <1>1, <3>4, <3>5
    <3>7. ~(p.busy_until[g] > now)
      BY <3>6
    <3> QED
      BY <3>1, <3>7
  <2> QED
    BY <2>1, <2>2
<1>14. q.waiting[stage] = <<>> \/ Idle(q.busy_until, now, stage) = {}
  <2>1. CASE n < Len(w)
    <3>1. FindIdle(q.busy_until, now, stage) = {}
      BY <1>4, <1>12, <2>1
    <3>2. q.busy_until \in [Gpu -> Nat]
      BY <1>12
    <3> QED
      BY <3>1, <3>2, IdleFound
  <2>2. CASE ~(n < Len(w))
    BY <1>1, <1>5, <1>6, <1>11, <2>2 DEF FrontTaken, StartedRight
  <2> QED
    BY <2>1, <2>2
<1>15. ASSUME NEW t \in Stage, NEW s
       PROVE  /\ WaitsIn(q, t, s) => WaitsIn(p, t, s)
              /\ WaitsIn(p, t, s) =>
                    WaitsIn(q, t, s) \/ (t = stage /\ WorksIn(q, t, s))
              /\ WorksIn(p, t, s) => WorksIn(q, t, s)
              /\ WorksIn(q, t, s) =>
                    WorksIn(p, t, s) \/ (t = stage /\ WaitsIn(p, t, s))
  <2>1. WaitsIn(q, t, s) <=> WaitsIn(p1, t, s)
    BY <1>11 DEF WaitsIn, StartedRight
  <2>2. WorksIn(q, t, s) <=> \/ WorksIn(p, t, s)
                             \/ t = stage /\ \E i \in 1 .. n : w[i] = s
    BY <1>5, <1>6, <1>10 DEF AtWorkOn, FrontTaken
  <2>3. CASE t # stage
    BY <1>6, <2>1, <2>2, <2>3 DEF FrontTaken
  <2>4. CASE t = stage
    <3>1. WaitsIn(q, t, s) => \E i \in (n + 1) .. Len(w) : w[i] = s
      BY <1>6, <2>1, <2>4 DEF FrontTaken
    <3>2. WaitsIn(p, t, s) <=> \E i \in DOMAIN w : w[i] = s
      BY <2>4 DEF WaitsIn
    <3>3. \A i \in (n + 1) .. Len(w) : i \in DOMAIN w /\ WaitsIn(q, t, w[i])
      <4>1. \A i \in (n + 1) .. Len(w) : i \in DOMAIN w
        BY <1>4, <1>5
      <4>2. \A i \in (n + 1) .. Len(w) : WaitsIn(p1, t, w[i])
        BY <1>6, <2>4 DEF FrontTaken
      <4>3. \A x : WaitsIn(q, t, x) <=> WaitsIn(p1, t, x)
        BY <1>11 DEF WaitsIn, StartedRight
      <4> QED
        BY <4>1, <4>2, <4>3
    <3>4. \A i \in DOMAIN w : i \in 1 .. n \/ i \in (n + 1) .. Len(w)
      BY <1>4, <1>5
    <3> HIDE DEF w
    <3> QED
      BY <1>5, <2>2, <2>4, <3>1, <3>2, <3>3, <3>4
  <2> QED
    BY <2>3, <2>4
<1>16. /\ DOMAIN q.in_flight = DOMAIN p.in_flight
       /\ \A s \in DOMAIN p.in_flight :
             ~WaitsIn(p, stage, s) => q.in_flight[s] = p.in_flight[s]
  <2>1. p1.in_flight = p.in_flight
    BY <1>6 DEF FrontTaken
  <2>2. \A i \in DOMAIN rs : WaitsIn(p, stage, rs[i])
    BY <1>5 DEF WaitsIn
  <2> QED
    BY <1>11, <2>1, <2>2 DEF StartedRight
<1>17. q.waiting = [p.waiting EXCEPT ![stage] = SubSeq(@, n + 1, Len(@))]
  BY <1>6, <1>11 DEF FrontTaken, StartedRight
<1>18. Extends(q, p)
  BY <1>6, <1>10 DEF FrontTaken, AtWorkOn, Extends
<1>19. \E m \in 0 .. Len(p.waiting[stage]) :
          q.waiting = [p.waiting EXCEPT ![stage] = SubSeq(@, m + 1, Len(@))]
  BY <1>17
<1>20. TriedRight(q, p, now, stage)
  BY <1>13, <1>14, <1>15, <1>16, <1>18, <1>19 DEF TriedRight
<1>21. Restamped(q, p, now)
  <2> SUFFICES ASSUME NEW s \in DOMAIN p.in_flight
               PROVE  Unmoved(q, p, s) \/ \E t \in Stage : TakenUp(q, p, now, t, s)
    BY DEF Restamped
  <2>1. CASE ~WaitsIn(p, stage, s)
    <3>1. Unmoved(q, p, s)
      BY <1>15, <1>16, <2>1 DEF Unmoved
    <3> QED
      BY <3>1
  <2>2. ASSUME NEW i \in DOMAIN rs, rs[i] = s PROVE TakenUp(q, p, now, stage, s)
    <3>1. WaitsIn(p, stage, s) /\ WorksIn(q, stage, s)
      BY <1>5, <1>10, <2>2 DEF WaitsIn, AtWorkOn
    <3>2. p1.in_flight = p.in_flight
      BY <1>6 DEF FrontTaken
    <3>3. Stamped(p1, now, stage, s) = Stamped(p, now, stage, s)
      BY <3>2 DEF Stamped, Duration, PrefillTokens
    <3> QED
      BY <1>11, <2>2, <3>1, <3>3 DEF StartedRight, TakenUp
  <2>3. CASE WaitsIn(p, stage, s) /\ \A i \in DOMAIN rs : rs[i] # s
    <3>1. q.in_flight[s] = p.in_flight[s]
      <4>1. p1.in_flight = p.in_flight
        BY <1>6 DEF FrontTaken
      <4> QED
        BY <1>11, <2>3, <4>1 DEF StartedRight
    <3>2. ~WorksIn(p, stage, s)
      BY <2>3 DEF PoolGood, Apart, WaitsIn, WorksIn
    <3>3. ~WorksIn(q, stage, s)
      BY <1>6, <1>10, <2>3, <3>2 DEF AtWorkOn, FrontTaken
    <3>4. \A t \in Stage : /\ WaitsIn(q, t, s) <=> WaitsIn(p, t, s)
                           /\ WorksIn(q, t, s) <=> WorksIn(p, t, s)
      BY <1>15, <2>3, <3>2, <3>3
    <3>5. Unmoved(q, p, s)
      BY <3>1, <3>4 DEF Unmoved
    <3> QED
      BY <3>5
  <2> QED
    BY <2>1, <2>2, <2>3
<1> QED
  BY <1>10, <1>20, <1>21

-----------------------------------------------------------------------------
(* A handler's steps, one after the other *)

\* Requests other than r at most leave a queue for the work they waited for.
OthersMove(q, p, r) ==
    /\ DOMAIN q.in_flight \ {r} = DOMAIN p.in_flight \ {r}
    /\ \A s \in DOMAIN p.in_flight \ {r} :
          (\A t \in Stage : ~WaitsIn(p, t, s)) => q.in_flight[s] = p.in_flight[s]
    /\ \A t \in Stage : \A s : s # r =>
          /\ WaitsIn(q, t, s) => WaitsIn(p, t, s)
          /\ WaitsIn(p, t, s) => WaitsIn(q, t, s) \/ WorksIn(q, t, s)
          /\ WorksIn(p, t, s) => WorksIn(q, t, s)
          /\ WorksIn(q, t, s) => WorksIn(p, t, s) \/ WaitsIn(p, t, s)

\* What is left of w when some of its front has gone.
RestOf(v, w) ==
    \E n \in Nat : /\ Len(w) = Len(v) + n
                   /\ \A i \in DOMAIN v : v[i] = w[n + i]

\* Everything that a step of a handler for r leaves as it was.
Keeps(q, p, now, r) ==
    /\ OthersMove(q, p, r)
    /\ Extends(q, p)
    /\ BusyKept(q, p, now)

LEMMA KeepsTransitive ==
    ASSUME NEW now \in Nat, NEW r, NEW o, NEW p, NEW q,
           Keeps(q, p, now, r), Keeps(p, o, now, r)
    PROVE  Keeps(q, o, now, r)
<1>1. OthersMove(q, o, r)
  BY DEF Keeps, OthersMove
<1>2. Extends(q, o)
  BY DEF Keeps, Extends
<1>3. BusyKept(q, o, now)
  <2> SUFFICES ASSUME NEW g \in Gpu
               PROVE  /\ q.busy_until[g] = o.busy_until[g] \/ Attends(q, g)
                      /\ o.busy_until[g] > now => q.busy_until[g] = o.busy_until[g]
    BY DEF BusyKept
  <2>1. o.busy_until[g] > now => q.busy_until[g] = o.busy_until[g]
    BY DEF Keeps, BusyKept
  <2>2. q.busy_until[g] = p.busy_until[g] /\ Attends(p, g) => Attends(q, g)
    BY DEF Keeps, Extends, Attends
  <2>3. /\ q.busy_until[g] = p.busy_until[g] \/ Attends(q, g)
        /\ p.busy_until[g] = o.busy_until[g] \/ Attends(p, g)
    BY DEF Keeps, BusyKept
  <2> QED
    BY <2>1, <2>2, <2>3
<1> QED
  BY <1>1, <1>2, <1>3 DEF Keeps

LEMMA QueuedKeeps ==
    ASSUME NEW now, NEW stage \in Stage, NEW r, NEW p, NEW q,
           QueuedRight(q, p, now, stage, r)
    PROVE  Keeps(q, p, now, r)
<1>1. /\ DOMAIN q.in_flight = DOMAIN p.in_flight
      /\ \A s \in DOMAIN p.in_flight \ {r} : q.in_flight[s] = p.in_flight[s]
      /\ Extends(q, p) /\ BusyKept(q, p, now)
  BY DEF QueuedRight
<1>2. \A t \in Stage : \A s : s # r =>
         /\ WaitsIn(q, t, s) <=> WaitsIn(p, t, s)
         /\ WorksIn(q, t, s) <=> WorksIn(p, t, s)
  BY DEF QueuedRight
<1>3. OthersMove(q, p, r)
  BY <1>1, <1>2 DEF OthersMove
<1> QED
  BY <1>1, <1>3 DEF Keeps

LEMMA TriedKeeps ==
    ASSUME NEW now, NEW stage \in Stage, NEW r, NEW p, NEW q,
           TriedRight(q, p, now, stage)
    PROVE  Keeps(q, p, now, r)
<1>1. OthersMove(q, p, r)
  <2>1. \A s \in DOMAIN p.in_flight :
           (\A t \in Stage : ~WaitsIn(p, t, s)) => q.in_flight[s] = p.in_flight[s]
    BY DEF TriedRight
  <2>2. DOMAIN q.in_flight = DOMAIN p.in_flight
    BY DEF TriedRight
  <2>3. \A t \in Stage : \A s :
          /\ WaitsIn(q, t, s) => WaitsIn(p, t, s)
          /\ WaitsIn(p, t, s) => WaitsIn(q, t, s) \/ WorksIn(q, t, s)
          /\ WorksIn(p, t, s) => WorksIn(q, t, s)
          /\ WorksIn(q, t, s) => WorksIn(p, t, s) \/ WaitsIn(p, t, s)
    BY DEF TriedRight
  <2> QED
    BY <2>1, <2>2, <2>3 DEF OthersMove
<1>2. Extends(q, p) /\ BusyKept(q, p, now)
  BY DEF TriedRight
<1> QED
  BY <1>1, <1>2 DEF Keeps

LEMMA RestTransitive ==
    ASSUME NEW u \in Seq(Request), NEW v \in Seq(Request), NEW w \in Seq(Request),
           RestOf(u, v), RestOf(v, w)
    PROVE  RestOf(u, w)
<1>1. PICK m \in Nat : Len(v) = Len(u) + m /\ \A i \in DOMAIN u : u[i] = v[m + i]
  BY DEF RestOf
<1>2. PICK n \in Nat : Len(w) = Len(v) + n /\ \A i \in DOMAIN v : v[i] = w[n + i]
  BY DEF RestOf
<1>3. /\ DOMAIN u = 1 .. Len(u) /\ DOMAIN v = 1 .. Len(v)
      /\ Len(u) \in Nat /\ Len(v) \in Nat
  OBVIOUS
<1>4. Len(w) = Len(u) + (n + m) /\ n + m \in Nat
  BY <1>1, <1>2, <1>3
<1>5. ASSUME NEW i \in DOMAIN u PROVE u[i] = w[(n + m) + i]
  <2>1. m + i \in DOMAIN v /\ n + (m + i) = (n + m) + i
    BY <1>1, <1>3
  <2> QED
    BY <1>1, <1>2, <2>1
<1> QED
  BY <1>4, <1>5 DEF RestOf

LEMMA TriedRest ==
    ASSUME NEW tiers, NEW now, NEW stage \in Stage, NEW p \in PoolType(tiers),
           NEW q \in PoolType(tiers), TriedRight(q, p, now, stage), NEW t \in Stage
    PROVE  RestOf(q.waiting[t], p.waiting[t])
<1> DEFINE w == p.waiting[stage]
<1>1. p.waiting \in [Stage -> Seq(Request)]
  BY PoolParts
<1>2. PICK n \in 0 .. Len(w) :
         q.waiting = [p.waiting EXCEPT ![stage] = SubSeq(@, n + 1, Len(@))]
  BY DEF TriedRight
<1>3. CASE t = stage
  <2> DEFINE v == SubSeq(w, n + 1, Len(w))
  <2>1. q.waiting[t] = v /\ p.waiting[t] = w
    BY <1>1, <1>2, <1>3
  <2>2. w \in Seq(Request)
    BY <1>1
  <2>3. /\ v \in Seq(Request) /\ DOMAIN v = 1 .. (Len(w) - n) /\ Len(w) \in Nat
        /\ \A i \in 1 .. (Len(w) - n) : v[i] = w[n + i]
    BY <2>2, SubSeqParts
  <2> HIDE DEF v, w
  <2>4. DOMAIN v = 1 .. Len(v) /\ Len(v) \in Nat
    BY <2>3
  <2>5. n \in Nat /\ Len(w) - n \in Nat
    BY <2>3
  <2>6. Len(v) = Len(w) - n
    BY <2>3, <2>4, <2>5
  <2>7. Len(w) = Len(v) + n
    BY <2>3, <2>5, <2>6
  <2> QED
    BY <2>1, <2>3, <2>5, <2>7 DEF RestOf
<1>4. CASE t # stage
  <2> DEFINE v == p.waiting[t]
  <2>1. q.waiting[t] = v /\ v \in Seq(Request)
    BY <1>1, <1>2, <1>4
  <2> HIDE DEF v
  <2>2. Len(v) = Len(v) + 0 /\ \A i \in DOMAIN v : v[i] = v[0 + i]
    BY <2>1
  <2> QED
    BY <2>1, <2>2 DEF RestOf, v
<1> QED
  BY <1>3, <1>4

\* A GPU that its event gives back.
LEMMA ReleasedGood ==
    ASSUME NEW tiers, NEW now \in Nat, NEW p, PoolGood(p, tiers, now),
           NEW g \in Gpu, NEW q, q = Released(p, g, now)
    PROVE  /\ PoolGood(q, tiers, now)
           /\ q.in_flight = p.in_flight /\ q.waiting = p.waiting
           /\ q.events = p.events
           /\ q.busy_until = [p.busy_until EXCEPT ![g] = now]
<1> DEFINE b == [p.busy_until EXCEPT ![g] = now]
<1>1. p \in PoolType(tiers) /\ b \in [Gpu -> Nat]
  BY PoolParts DEF PoolGood
<1>2. q = [p EXCEPT !.busy_until = b]
  BY DEF Released
<1> HIDE DEF b
<1>3. /\ [p EXCEPT !.busy_until = b] \in PoolType(tiers)
      /\ [p EXCEPT !.busy_until = b].in_flight = p.in_flight
      /\ [p EXCEPT !.busy_until = b].waiting = p.waiting
      /\ [p EXCEPT !.busy_until = b].events = p.events
      /\ [p EXCEPT !.busy_until = b].busy_until = b
  BY <1>1 DEF PoolType
<1>4. Apart(q) /\ \A r : HeldIn(q, r) <=> HeldIn(p, r)
  BY <1>2, <1>3 DEF PoolGood, Apart, HeldIn, WaitsIn, WorksIn
<1> QED
  BY <1>2, <1>3, <1>4 DEF PoolGood, b

FinalizedRight(q, p, r) ==
    /\ q.busy_until = p.busy_until /\ q.waiting = p.waiting
    /\ q.events = p.events
    /\ DOMAIN q.in_flight = DOMAIN p.in_flight \ {r}
    /\ \A s \in DOMAIN q.in_flight : q.in_flight[s] = p.in_flight[s]

\* A request that is at its end leaves.
LEMMA FinalizedGood ==
    ASSUME NEW tiers, NEW now \in Nat, NEW p, PoolGood(p, tiers, now),
           NEW r, ~HeldIn(p, r), NEW q, q = Finalized(p, r)
    PROVE  PoolGood(q, tiers, now) /\ FinalizedRight(q, p, r)
<1> DEFINE D == DOMAIN p.in_flight \ {r}
           f == [s \in D |-> p.in_flight[s]]
<1>1. p \in PoolType(tiers) /\ D \in SUBSET Request
      /\ \A s \in D : p.in_flight[s] \in FlightOf(tiers)
  BY PoolParts DEF PoolGood
<1>2. q = [p EXCEPT !.in_flight = f]
  BY DEF Finalized, Restrict
<1>3. f \in Flights(tiers) /\ DOMAIN f = D /\ \A s \in D : f[s] = p.in_flight[s]
  <2> HIDE DEF D
  <2>1. f \in [D -> FlightOf(tiers)]
    BY <1>1
  <2> QED
    BY <1>1, <2>1 DEF Flights
<1> HIDE DEF f
<1>4. /\ [p EXCEPT !.in_flight = f] \in PoolType(tiers)
      /\ [p EXCEPT !.in_flight = f].busy_until = p.busy_until
      /\ [p EXCEPT !.in_flight = f].waiting = p.waiting
      /\ [p EXCEPT !.in_flight = f].events = p.events
      /\ [p EXCEPT !.in_flight = f].in_flight = f
  BY <1>1, <1>3 DEF PoolType
<1>5. Apart(q) /\ \A s : HeldIn(q, s) <=> HeldIn(p, s)
  BY <1>2, <1>4 DEF PoolGood, Apart, HeldIn, WaitsIn, WorksIn
<1>6. ASSUME NEW i \in DOMAIN q.events
      PROVE  OnTime(q.in_flight, now, q.events[i])
  <2>1. p.events[i] \in Work /\ i \in DOMAIN p.events /\ q.events = p.events
    BY <1>1, <1>2, <1>4, PoolParts
  <2>2. PICK t \in Stage : p.events[i].kind.tag = Done(t)
    BY <2>1, StageDone DEF Work, GpuKind
  <2>3. HeldIn(p, p.events[i].kind.request_id)
    BY <2>1, <2>2 DEF HeldIn, WorksIn
  <2>4. p.events[i].kind.request_id # r /\ OnTime(p.in_flight, now, p.events[i])
    BY <2>1, <2>3 DEF PoolGood
  <2>5. q.in_flight = f
    BY <1>2, <1>4
  <2> QED
    BY <1>3, <2>1, <2>4, <2>5 DEF OnTime
<1> QED
  BY <1>2, <1>3, <1>4, <1>5, <1>6 DEF PoolGood, FinalizedRight

\* Whoever waits finds no idle GPU.
NoneIdle(q, now) ==
    \A t \in Stage : q.waiting[t] = <<>> \/ Idle(q.busy_until, now, t) = {}

IsIn(q, stage, r) == WaitsIn(q, stage, r) \/ WorksIn(q, stage, r)

\* Every queue has lost at most some of its front, and only that for the stage
\* has got r at its back.
InLine(q, p, stage, r) ==
    \A t \in Stage :
        \/ RestOf(q.waiting[t], p.waiting[t])
        \/ t = stage /\ RestOf(q.waiting[t], Append(p.waiting[t], r))

\* What both try_assign loops leave behind.
BothTried(q, p, now) ==
    /\ \A r : Keeps(q, p, now, r)
    /\ DOMAIN q.in_flight = DOMAIN p.in_flight
    /\ NoneIdle(q, now)
    /\ \A t \in Stage : RestOf(q.waiting[t], p.waiting[t])
    /\ \A t \in Stage : \A s : IsIn(q, t, s) <=> IsIn(p, t, s)

LEMMA TryBothGood ==
    ASSUME NEW tiers, NEW now \in Nat, NEW a \in Stage, NEW b \in Stage, a # b,
           TraceOK, NEW o, PoolGood(o, tiers, now),
           NEW p \in TryAssign(o, now, a), NEW q \in TryAssign(p, now, b)
    PROVE  PoolGood(q, tiers, now) /\ BothTried(q, o, now)
<1>1. PoolGood(p, tiers, now) /\ TriedRight(p, o, now, a)
  BY TryAssignGood
<1>2. PoolGood(q, tiers, now) /\ TriedRight(q, p, now, b)
  BY <1>1, TryAssignGood
<1>3. ASSUME NEW r PROVE Keeps(q, o, now, r)
  BY <1>1, <1>2, TriedKeeps, KeepsTransitive
<1>4. /\ o.waiting \in [Stage -> Seq(Request)] /\ p.waiting \in [Stage -> Seq(Request)]
      /\ q.waiting \in [Stage -> Seq(Request)]
      /\ o \in PoolType(tiers) /\ p \in PoolType(tiers) /\ q \in PoolType(tiers)
      /\ p.busy_until \in [Gpu -> Nat]
  BY <1>1, <1>2, PoolParts DEF PoolGood
<1>5. ASSUME NEW t \in Stage PROVE RestOf(q.waiting[t], o.waiting[t])
  <2>1. RestOf(q.waiting[t], p.waiting[t]) /\ RestOf(p.waiting[t], o.waiting[t])
    BY <1>1, <1>2, <1>4, TriedRest
  <2> QED
    BY <1>4, <2>1, RestTransitive
<1>6. NoneIdle(q, now)
  <2>1. q.waiting[b] = <<>> \/ Idle(q.busy_until, now, b) = {}
    BY <1>2 DEF TriedRight
  <2>2. p.waiting[a] = <<>> \/ Idle(p.busy_until, now, a) = {}
    BY <1>1 DEF TriedRight
  <2>3. q.waiting[a] = p.waiting[a]
    BY <1>2, <1>4 DEF TriedRight
  <2>4. ASSUME Idle(p.busy_until, now, a) = {} PROVE Idle(q.busy_until, now, a) = {}
    <3>1. ASSUME NEW g \in Gpu, Serves(g, a) PROVE ~(q.busy_until[g] <= now)
      <4>1. p.busy_until[g] \in Nat /\ ~(p.busy_until[g] <= now)
        BY <1>4, <2>4, <3>1 DEF Idle
      <4>2. p.busy_until[g] > now
        BY <4>1
      <4>3. q.busy_until[g] = p.busy_until[g]
        BY <1>2, <4>2 DEF TriedRight, BusyKept
      <4> QED
        BY <4>1, <4>3
    <3> QED
      BY <3>1 DEF Idle
  <2>5. \A t \in Stage : t = a \/ t = b
    BY DEF Stage
  <2> QED
    BY <2>1, <2>2, <2>3, <2>4, <2>5 DEF NoneIdle
<1>7. ASSUME NEW t \in Stage, NEW s PROVE IsIn(q, t, s) <=> IsIn(o, t, s)
  BY <1>1, <1>2 DEF TriedRight, IsIn
<1>8. DOMAIN q.in_flight = DOMAIN o.in_flight
  BY <1>1, <1>2 DEF TriedRight
<1> QED
  BY <1>2, <1>3, <1>5, <1>6, <1>7, <1>8 DEF BothTried

\* r has been sent on to the stage, and to no other.
SentOn(q, p, now, stage, r) ==
    /\ Keeps(q, p, now, r)
    /\ DOMAIN q.in_flight = DOMAIN p.in_flight
    /\ InLine(q, p, stage, r)
    /\ \A t \in Stage : IsIn(q, t, r) <=> t = stage

\* start_prefill or start_decode, or the back of the queue.
LEMMA SendGood ==
    ASSUME NEW tiers, NEW now \in Nat, NEW stage \in Stage, TraceOK,
           NEW p, PoolGood(p, tiers, now), NEW r \in DOMAIN p.in_flight,
           ~HeldIn(p, r), NEW q, q = StartOrQueue(p, now, stage, r)
    PROVE  /\ PoolGood(q, tiers, now)
           /\ SentOn(q, p, now, stage, r)
           /\ \A t \in Stage : \/ q.waiting[t] = p.waiting[t]
                               \/ Idle(q.busy_until, now, t) = {}
<1>1. PoolGood(q, tiers, now) /\ QueuedRight(q, p, now, stage, r)
  BY StartOrQueueGood
<1>2. p.waiting \in [Stage -> Seq(Request)] /\ q.waiting \in [Stage -> Seq(Request)]
  BY <1>1, PoolParts DEF PoolGood
<1>3. \A v \in Seq(Request) : RestOf(v, v)
  <2> SUFFICES ASSUME NEW v \in Seq(Request) PROVE RestOf(v, v)
    OBVIOUS
  <2>1. Len(v) = Len(v) + 0 /\ \A i \in DOMAIN v : v[i] = v[0 + i]
    OBVIOUS
  <2> QED
    BY <2>1 DEF RestOf
<1>4. \A t \in Stage : \/ q.waiting[t] = p.waiting[t]
                       \/ /\ t = stage /\ q.waiting[t] = Append(p.waiting[t], r)
                          /\ Idle(q.busy_until, now, t) = {}
  BY <1>1, <1>2 DEF QueuedRight
<1>5. InLine(q, p, stage, r)
  <2> SUFFICES ASSUME NEW t \in Stage
               PROVE  \/ RestOf(q.waiting[t], p.waiting[t])
                      \/ t = stage /\ RestOf(q.waiting[t], Append(p.waiting[t], r))
    BY DEF InLine
  <2>1. RestOf(q.waiting[t], q.waiting[t])
    BY <1>2, <1>3
  <2> QED
    BY <1>4, <2>1
<1>6. \A t \in Stage : IsIn(q, t, r) <=> t = stage
  BY <1>1 DEF QueuedRight, IsIn
<1>7. Keeps(q, p, now, r)
  BY <1>1, QueuedKeeps
<1>8. SentOn(q, p, now, stage, r)
  BY <1>1, <1>5, <1>6, <1>7 DEF SentOn, QueuedRight
<1> QED
  BY <1>1, <1>4, <1>8

\* A request is sent on, and both queues are looked at.
LEMMA SendAndTryGood ==
    ASSUME NEW tiers, NEW now \in Nat, NEW stage \in Stage,
           NEW a \in Stage, NEW b \in Stage, a # b, TraceOK,
           NEW o, PoolGood(o, tiers, now), NEW r \in DOMAIN o.in_flight,
           ~HeldIn(o, r), NEW n, n = StartOrQueue(o, now, stage, r),
           NEW p \in TryAssign(n, now, a), NEW q \in TryAssign(p, now, b)
    PROVE  /\ PoolGood(q, tiers, now)
           /\ SentOn(q, o, now, stage, r)
           /\ NoneIdle(q, now)
<1>1. PoolGood(n, tiers, now) /\ SentOn(n, o, now, stage, r)
  BY SendGood
<1>2. PoolGood(q, tiers, now) /\ BothTried(q, n, now)
  BY <1>1, TryBothGood
<1>3. Keeps(q, o, now, r)
  BY <1>1, <1>2, KeepsTransitive DEF SentOn, BothTried
<1>4. InLine(q, o, stage, r)
  <2> SUFFICES ASSUME NEW t \in Stage
               PROVE  \/ RestOf(q.waiting[t], o.waiting[t])
                      \/ t = stage /\ RestOf(q.waiting[t], Append(o.waiting[t], r))
    BY DEF InLine
  <2>1. RestOf(q.waiting[t], n.waiting[t])
    BY <1>2 DEF BothTried
  <2>2. /\ q.waiting[t] \in Seq(Request) /\ n.waiting[t] \in Seq(Request)
        /\ o.waiting[t] \in Seq(Request) /\ r \in Request
    BY <1>1, <1>2, PoolParts DEF PoolGood
  <2>3. Append(o.waiting[t], r) \in Seq(Request)
    BY <2>2
  <2>4. \/ RestOf(n.waiting[t], o.waiting[t])
        \/ t = stage /\ RestOf(n.waiting[t], Append(o.waiting[t], r))
    BY <1>1 DEF SentOn, InLine
  <2> QED
    BY <2>1, <2>2, <2>3, <2>4, RestTransitive
<1>5. DOMAIN q.in_flight = DOMAIN o.in_flight
  BY <1>1, <1>2 DEF SentOn, BothTried
<1>6. \A t \in Stage : IsIn(q, t, r) <=> t = stage
  BY <1>1, <1>2 DEF SentOn, BothTried
<1> QED
  BY <1>2, <1>3, <1>4, <1>5, <1>6 DEF SentOn, BothTried

-----------------------------------------------------------------------------
(* What holds between two handlers *)

EventOf(fetches) ==
    [time_ns : Nat, seq : Nat, kind : ArrivalKind \cup fetches \cup GpuKind]

Types(tiers, fetches) ==
    /\ now_ns \in Nat /\ next_seq \in Nat
    /\ queue \subseteq EventOf(fetches)
    /\ busy_until \in [Gpu -> Nat]
    /\ in_flight \in Flights(tiers)
    /\ waiting \in [Stage -> Seq(Request)]
    /\ DOMAIN results \subseteq Request
    /\ \A r \in DOMAIN results : results[r] \in [Stamps -> Nat]

\* No two events have the same number.
Numbered ==
    /\ \A e \in queue : e.seq < next_seq
    /\ \A e, f \in queue : e.seq = f.seq => e = f

\* No request is in two places of the event queue and the waiting queues.
InOnePlace ==
    /\ \A e, f \in queue : e.kind.request_id = f.kind.request_id => e = f
    /\ \A s, t \in Stage : \A i \in DOMAIN waiting[s], j \in DOMAIN waiting[t] :
          waiting[s][i] = waiting[t][j] => s = t /\ i = j
    /\ \A e \in queue, s \in Stage : \A j \in DOMAIN waiting[s] :
          e.kind.request_id # waiting[s][j]

\* The requests in flight are those without a result, and each is somewhere.
Accounted ==
    /\ DOMAIN in_flight = Request \ DOMAIN results
    /\ \A e \in queue : e.kind.request_id \in DOMAIN in_flight
    /\ \A stage \in Stage : \A i \in DOMAIN waiting[stage] :
          waiting[stage][i] \in DOMAIN in_flight
    /\ \A r \in DOMAIN in_flight :
          \/ \E e \in queue : e.kind.request_id = r
          \/ \E stage \in Stage : Waits(stage, r)

NotStarted ==
    /\ queue = {} /\ waiting = EmptyQueues
    /\ in_flight = <<>> /\ results = <<>>

ServingInv(tiers, fetches) ==
    /\ Types(tiers, fetches)
    /\ Numbered
    /\ InOnePlace
    /\ TimelineHonest
    /\ IF Running THEN TraceOK /\ Accounted ELSE NotStarted

LEMMA PoolIsGood ==
    ASSUME NEW tiers, NEW fetches, ServingInv(tiers, fetches), Running,
           NEW now \in Nat
    PROVE  /\ PoolGood(Pool, tiers, now)
           /\ Pool.busy_until = busy_until /\ Pool.in_flight = in_flight
           /\ Pool.waiting = waiting /\ Pool.events = <<>>
           /\ \A t \in Stage : \A s : /\ WaitsIn(Pool, t, s) <=> Waits(t, s)
                                      /\ ~WorksIn(Pool, t, s)
<1>1. /\ Pool.busy_until = busy_until /\ Pool.in_flight = in_flight
      /\ Pool.waiting = waiting /\ Pool.events = <<>>
      /\ Pool = [busy_until |-> busy_until, in_flight |-> in_flight,
                 waiting |-> waiting, events |-> <<>>]
  BY DEF Pool
<1>2. <<>> \in Seq(Work) /\ DOMAIN Pool.events = {}
  BY <1>1
<1>3. Pool \in PoolType(tiers)
  BY <1>1, <1>2 DEF PoolType, ServingInv, Types
<1> HIDE DEF Pool
<1>4. \A t \in Stage : \A s : /\ WaitsIn(Pool, t, s) <=> Waits(t, s)
                              /\ ~WorksIn(Pool, t, s)
  BY <1>1, <1>2 DEF WaitsIn, Waits, WorksIn
<1>5. Apart(Pool)
  BY <1>1, <1>2 DEF Apart, ServingInv, InOnePlace
<1>6. \A r : HeldIn(Pool, r) => r \in DOMAIN Pool.in_flight
  BY <1>1, <1>4 DEF HeldIn, Waits, ServingInv, Accounted
<1> QED
  BY <1>1, <1>2, <1>3, <1>4, <1>5, <1>6 DEF PoolGood

\* The request of a pending event is in flight, and in no queue.
LEMMA EventParts ==
    ASSUME NEW tiers, NEW fetches, fetches \subseteq FetchKind,
           ServingInv(tiers, fetches), NEW e \in queue
    PROVE  /\ Running
           /\ e \in EventOf(fetches)
           /\ e.time_ns \in Nat /\ e.seq \in Nat /\ e.seq < next_seq
           /\ e.kind \in ArrivalKind \cup fetches \cup GpuKind
           /\ e.kind.request_id \in Request
           /\ e.kind.request_id \in DOMAIN in_flight
           /\ \A t \in Stage : ~Waits(t, e.kind.request_id)
           /\ e.time_ns >= now_ns
<1>1. Running
  BY DEF ServingInv, NotStarted
<1>2. /\ e \in EventOf(fetches) /\ e.time_ns \in Nat /\ e.seq \in Nat
      /\ e.kind \in ArrivalKind \cup fetches \cup GpuKind
  BY DEF ServingInv, Types, EventOf
<1>3. e.kind.request_id \in Request
  BY <1>2 DEF ArrivalKind, FetchKind, GpuKind
<1>4. e.kind.request_id \in DOMAIN in_flight
  BY <1>1 DEF ServingInv, Accounted
<1>5. \A t \in Stage : ~Waits(t, e.kind.request_id)
  BY DEF ServingInv, InOnePlace, Waits
<1> QED
  BY <1>1, <1>2, <1>3, <1>4, <1>5 DEF ServingInv, Numbered, TimelineHonest

\* Nothing is delivered late.
LEMMA DeliveredOnTime ==
    ASSUME NEW tiers, NEW fetches, fetches \subseteq FetchKind,
           ServingInv(tiers, fetches), NEW e, IsNext(e)
    PROVE  /\ ClockAt(e) = e.time_ns
           /\ ClockAt(e) \in Nat /\ now_ns \in Nat /\ now_ns <= ClockAt(e)
           /\ \A f \in queue : f.time_ns \in Nat /\ ClockAt(e) <= f.time_ns
<1>1. e \in queue /\ e.time_ns \in Nat /\ now_ns \in Nat /\ e.time_ns >= now_ns
  BY EventParts DEF IsNext, ServingInv, Types
<1>2. ClockAt(e) = e.time_ns
  BY <1>1 DEF ClockAt
<1>3. ASSUME NEW f \in queue PROVE f.time_ns \in Nat /\ e.time_ns <= f.time_ns
  <2>1. f.time_ns \in Nat
    BY EventParts
  <2>2. f = e \/ e.time_ns < f.time_ns \/ e.time_ns = f.time_ns
    BY DEF IsNext, Before
  <2> QED
    BY <1>1, <2>1, <2>2
<1> QED
  BY <1>1, <1>2, <1>3

-----------------------------------------------------------------------------
(* A handler returns *)

\* A pool that the handler of an event for r may return with.  Only r can have
\* been given a fetch to wait for.
Committable(q, tiers, fetches, now, r) ==
    /\ q.busy_until \in [Gpu -> Nat]
    /\ q.in_flight \in Flights(tiers)
    /\ q.waiting \in [Stage -> Seq(Request)]
    /\ q.events \in Seq([time_ns : Nat, kind : fetches \cup GpuKind])
    /\ Apart(q)
    /\ \A i \in DOMAIN q.events :
          /\ OnTime(q.in_flight, now, q.events[i])
          /\ q.events[i].kind \in GpuKind \/ q.events[i].kind.request_id = r
    /\ \A stage \in Stage : \A s : WaitsIn(q, stage, s) => s \in DOMAIN q.in_flight

LEMMA GoodIsCommittable ==
    ASSUME NEW tiers, NEW fetches, NEW now \in Nat, NEW r,
           NEW q, PoolGood(q, tiers, now)
    PROVE  Committable(q, tiers, fetches, now, r)
<1>1. q \in PoolType(tiers)
  BY DEF PoolGood
<1>2. /\ q.busy_until \in [Gpu -> Nat] /\ q.in_flight \in Flights(tiers)
      /\ q.waiting \in [Stage -> Seq(Request)] /\ q.events \in Seq(Work)
  BY <1>1, PoolParts
<1>3. q.events \in Seq([time_ns : Nat, kind : fetches \cup GpuKind])
  <2> DEFINE X == [time_ns : Nat, kind : fetches \cup GpuKind]
  <2>1. Work \subseteq X
    BY DEF Work
  <2> HIDE DEF X
  <2>2. \A i \in DOMAIN q.events : q.events[i] \in X
    BY <1>2, <2>1
  <2>3. q.events \in Seq(X)
    BY <1>2, <2>2
  <2> QED
    BY <2>3 DEF X
<1>4. ASSUME NEW i \in DOMAIN q.events PROVE q.events[i].kind \in GpuKind
  <2>1. q.events[i] \in Work
    BY <1>2
  <2> QED
    BY <2>1 DEF Work
<1> QED
  BY <1>2, <1>3, <1>4 DEF PoolGood, Committable, HeldIn

\* The i-th event that a handler schedules.
NewEvent(q, i) ==
    [time_ns |-> q.events[i].time_ns, seq |-> next_seq + i - 1,
     kind |-> q.events[i].kind]

\* The pending events after the handler of e.
Delivered(e, q) ==
    /\ Len(q.events) \in Nat /\ DOMAIN q.events = 1 .. Len(q.events)
    /\ next_seq' = next_seq + Len(q.events)
    /\ \A f \in queue' : \/ f \in queue /\ f # e
                         \/ \E i \in DOMAIN q.events : f = NewEvent(q, i)
    /\ \A f \in queue : f # e => f \in queue'
    /\ \A i \in DOMAIN q.events : NewEvent(q, i) \in queue'

LEMMA CommittedQueue ==
    ASSUME NEW e, NEW q, NEW S, q.events \in Seq(S), Commit(e, q)
    PROVE  Delivered(e, q)
<1>1. Len(q.events) \in Nat /\ DOMAIN q.events = 1 .. Len(q.events)
  OBVIOUS
<1>2. /\ queue' = (queue \ {e}) \cup Batch(q.events, next_seq)
      /\ next_seq' = next_seq + Len(q.events)
  BY DEF Commit, StepAndSchedule
<1> QED
  BY <1>1, <1>2 DEF Batch, Delivered, NewEvent

\* The handler of e, for the request r, returns with q, r is somewhere or has
\* its result, and nobody else has been sent anywhere but from a queue to work.
Returns(e, q, tiers, fetches) ==
    LET r == e.kind.request_id
    IN  /\ IsNext(e)
        /\ Committable(q, tiers, fetches, ClockAt(e), r)
        /\ OthersMove(q, Pool, r)
        /\ Commit(e, q)
        /\ trace' = trace
        /\ \/ /\ r \in DOMAIN q.in_flight /\ results' = results
              /\ \/ \E stage \in Stage : WaitsIn(q, stage, r)
                 \/ \E i \in DOMAIN q.events : q.events[i].kind.request_id = r
           \/ /\ r \notin DOMAIN q.in_flight
              /\ DOMAIN results' = DOMAIN results \cup {r}
              /\ \A s \in DOMAIN results' : results'[s] \in [Stamps -> Nat]

LEMMA CommitKeeps ==
    ASSUME NEW tiers, NEW fetches, fetches \subseteq FetchKind,
           ServingInv(tiers, fetches), NEW e, NEW q, Returns(e, q, tiers, fetches)
    PROVE  ServingInv(tiers, fetches)'
<1> DEFINE r == e.kind.request_id
           now == ClockAt(e)
           E(i) == q.events[i]
<1>1. /\ e \in queue /\ IsNext(e) /\ Commit(e, q) /\ trace' = trace
      /\ Committable(q, tiers, fetches, now, r)
      /\ OthersMove(q, Pool, r)
  BY DEF Returns, IsNext
<1>2. /\ now_ns' = now /\ busy_until' = q.busy_until
      /\ in_flight' = q.in_flight /\ waiting' = q.waiting
  BY <1>1 DEF Commit, StepAndSchedule
<1>3. /\ now \in Nat /\ now_ns \in Nat /\ now_ns <= now
      /\ \A f \in queue : f.time_ns \in Nat /\ now <= f.time_ns
  BY <1>1, DeliveredOnTime
<1>4. Running /\ r \in Request /\ r \in DOMAIN in_flight
      /\ \A t \in Stage : ~Waits(t, r)
  BY <1>1, EventParts
<1>5. q.events \in Seq([time_ns : Nat, kind : fetches \cup GpuKind])
  BY <1>1 DEF Committable
<1>6. Delivered(e, q)
  BY <1>1, <1>5, CommittedQueue
<1>7. /\ Pool.in_flight = in_flight /\ Pool.waiting = waiting
      /\ \A t \in Stage : \A s : /\ WaitsIn(Pool, t, s) <=> Waits(t, s)
                                 /\ ~WorksIn(Pool, t, s)
  BY <1>3, <1>4, PoolIsGood
<1>8. next_seq \in Nat
  BY DEF ServingInv, Types
\* a new event
<1>9. ASSUME NEW i \in DOMAIN q.events
      PROVE  /\ E(i).time_ns \in Nat /\ E(i).kind \in fetches \cup GpuKind
             /\ E(i).kind.request_id \in Request
             /\ E(i).kind.tag # "RequestArrival"
             /\ NewEvent(q, i).time_ns = E(i).time_ns
             /\ NewEvent(q, i).kind = E(i).kind
             /\ NewEvent(q, i).seq = next_seq + i - 1
             /\ NewEvent(q, i) \in EventOf(fetches)
             /\ i \in Nat /\ i >= 1 /\ i <= Len(q.events)
             /\ OnTime(q.in_flight, now, E(i))
  <2>1. E(i) \in [time_ns : Nat, kind : fetches \cup GpuKind]
    <3> DEFINE X == [time_ns : Nat, kind : fetches \cup GpuKind]
    <3>1. q.events \in Seq(X)
      BY <1>5
    <3> HIDE DEF X
    <3>2. q.events[i] \in X
      BY <3>1
    <3> QED
      BY <3>2 DEF X
  <2>2. i \in Nat /\ i >= 1 /\ i <= Len(q.events)
    BY <1>6 DEF Delivered
  <2>3. E(i).time_ns \in Nat /\ E(i).kind \in fetches \cup GpuKind
    BY <2>1
  <2>4. E(i).kind.request_id \in Request /\ E(i).kind.tag # "RequestArrival"
    BY <2>3 DEF FetchKind, GpuKind
  <2>5. next_seq + i - 1 \in Nat
    BY <1>8, <2>2
  <2>6. OnTime(q.in_flight, now, E(i))
    BY <1>1 DEF Committable
  <2> HIDE DEF E
  <2>7. /\ NewEvent(q, i).time_ns = E(i).time_ns
        /\ NewEvent(q, i).kind = E(i).kind
        /\ NewEvent(q, i).seq = next_seq + i - 1
        /\ NewEvent(q, i) \in EventOf(fetches)
    BY <2>3, <2>5 DEF NewEvent, EventOf, E
  <2> QED
    BY <2>2, <2>3, <2>4, <2>6, <2>7
\* an event that stays
<1>10. ASSUME NEW f \in queue, f # e
       PROVE  /\ f.kind.request_id # r
              /\ f.kind.request_id \in DOMAIN in_flight
              /\ f.kind.request_id \in DOMAIN q.in_flight
              /\ \A t \in Stage : ~WaitsIn(q, t, f.kind.request_id)
              /\ \A t \in Stage : ~WorksIn(q, t, f.kind.request_id)
              /\ q.in_flight[f.kind.request_id] = in_flight[f.kind.request_id]
  <2> DEFINE s == f.kind.request_id
  <2>1. s # r
    BY <1>1, <1>10 DEF ServingInv, InOnePlace
  <2>2. s \in DOMAIN in_flight /\ \A t \in Stage : ~Waits(t, s)
    BY EventParts
  <2> HIDE DEF s, r
  <2>3. s \in DOMAIN q.in_flight
    BY <1>1, <1>7, <2>1, <2>2 DEF OthersMove
  <2>4. q.in_flight[s] = in_flight[s]
    BY <1>1, <1>7, <2>1, <2>2 DEF OthersMove
  <2>5. \A t \in Stage : ~WaitsIn(q, t, s) /\ ~WorksIn(q, t, s)
    BY <1>1, <1>7, <2>1, <2>2 DEF OthersMove
  <2> QED
    BY <2>1, <2>2, <2>3, <2>4, <2>5 DEF s
\* the request of a new event has just been started, or is r
<1>11. ASSUME NEW i \in DOMAIN q.events
       PROVE  \/ E(i).kind.request_id = r
              \/ \E t \in Stage : WorksIn(q, t, E(i).kind.request_id)
  <2>1. CASE E(i).kind \in GpuKind
    <3>1. PICK t \in Stage : E(i).kind.tag = Done(t)
      BY <2>1, StageDone DEF GpuKind
    <3> QED
      BY <3>1 DEF WorksIn
  <2>2. CASE E(i).kind \notin GpuKind
    BY <1>1, <2>2 DEF Committable
  <2> QED
    BY <2>1, <2>2
<1>12. ASSUME NEW f \in queue, f # e, NEW i \in DOMAIN q.events
       PROVE  f.kind.request_id # E(i).kind.request_id
  BY <1>10, <1>11, <1>12
<1> HIDE DEF r, now, E
<1>13. Numbered'
  <2>1. next_seq' = next_seq + Len(q.events) /\ Len(q.events) \in Nat
    BY <1>6 DEF Delivered
  <2>2. \A f \in queue : f.seq \in Nat /\ f.seq < next_seq
    BY EventParts
  <2>3. ASSUME NEW f \in queue' PROVE f.seq < next_seq'
    <3>1. CASE f \in queue
      BY <1>8, <2>1, <2>2, <3>1
    <3>2. CASE \E i \in DOMAIN q.events : f = NewEvent(q, i)
      BY <1>8, <1>9, <2>1, <3>2
    <3> QED
      BY <1>6, <3>1, <3>2 DEF Delivered
  <2>4. ASSUME NEW f \in queue', NEW g \in queue', f.seq = g.seq PROVE f = g
    <3>1. CASE f \in queue /\ g \in queue
      BY <2>4, <3>1 DEF ServingInv, Numbered
    <3>2. ASSUME NEW h \in queue, NEW i \in DOMAIN q.events
          PROVE  h.seq # NewEvent(q, i).seq
      BY <1>8, <1>9, <2>2, <3>2
    <3>3. ASSUME NEW i \in DOMAIN q.events, NEW j \in DOMAIN q.events,
                 NewEvent(q, i).seq = NewEvent(q, j).seq
          PROVE  i = j
      BY <1>8, <1>9, <3>3
    <3> QED
      BY <1>6, <2>4, <3>1, <3>2, <3>3 DEF Delivered
  <2> QED
    BY <2>3, <2>4 DEF Numbered
<1>14. InOnePlace'
  <2>1. ASSUME NEW f \in queue', NEW g \in queue',
               f.kind.request_id = g.kind.request_id
        PROVE  f = g
    <3>1. CASE f \in queue /\ g \in queue
      BY <2>1, <3>1 DEF ServingInv, InOnePlace
    <3>2. ASSUME NEW i \in DOMAIN q.events, NEW j \in DOMAIN q.events,
                 NewEvent(q, i).kind.request_id = NewEvent(q, j).kind.request_id
          PROVE  i = j
      BY <1>1, <1>9, <3>2 DEF Committable, Apart, E
    <3>3. ASSUME NEW h \in queue, h # e, NEW i \in DOMAIN q.events
          PROVE  h.kind.request_id # NewEvent(q, i).kind.request_id
      BY <1>9, <1>12, <3>3
    <3> QED
      BY <1>6, <2>1, <3>1, <3>2, <3>3 DEF Delivered
  <2>2. \A s, t \in Stage : \A i \in DOMAIN q.waiting[s], j \in DOMAIN q.waiting[t] :
           q.waiting[s][i] = q.waiting[t][j] => s = t /\ i = j
    BY <1>1 DEF Committable, Apart
  <2>3. ASSUME NEW f \in queue', NEW s \in Stage, NEW j \in DOMAIN q.waiting[s]
        PROVE  f.kind.request_id # q.waiting[s][j]
    <3>1. CASE f \in queue /\ f # e
      BY <1>10, <3>1 DEF WaitsIn
    <3>2. ASSUME NEW i \in DOMAIN q.events PROVE E(i).kind.request_id # q.waiting[s][j]
      BY <1>1 DEF Committable, Apart, E
    <3>3. CASE \E i \in DOMAIN q.events : f = NewEvent(q, i)
      BY <1>9, <3>2, <3>3
    <3> QED
      BY <1>6, <3>1, <3>3 DEF Delivered
  <2> QED
    BY <1>2, <2>1, <2>2, <2>3 DEF InOnePlace
<1>15. /\ DOMAIN results' \subseteq Request
       /\ \A s \in DOMAIN results' : results'[s] \in [Stamps -> Nat]
       /\ DOMAIN q.in_flight = Request \ DOMAIN results'
       /\ r \in DOMAIN q.in_flight =>
             \/ \E stage \in Stage : WaitsIn(q, stage, r)
             \/ \E i \in DOMAIN q.events : E(i).kind.request_id = r
  <2>1. DOMAIN in_flight = Request \ DOMAIN results
    BY <1>4 DEF ServingInv, Accounted
  <2>2. DOMAIN q.in_flight \ {r} = DOMAIN in_flight \ {r}
    BY <1>1, <1>7 DEF OthersMove
  <2>3. /\ DOMAIN results \subseteq Request
        /\ \A s \in DOMAIN results : results[s] \in [Stamps -> Nat]
    BY DEF ServingInv, Types
  <2>4. CASE /\ r \in DOMAIN q.in_flight /\ results' = results
             /\ \/ \E stage \in Stage : WaitsIn(q, stage, r)
                \/ \E i \in DOMAIN q.events : q.events[i].kind.request_id = r
    <3>1. DOMAIN q.in_flight = DOMAIN in_flight
      BY <1>4, <2>2, <2>4
    <3> QED
      BY <2>1, <2>3, <2>4, <3>1 DEF E
  <2>5. CASE /\ r \notin DOMAIN q.in_flight
             /\ DOMAIN results' = DOMAIN results \cup {r}
             /\ \A s \in DOMAIN results' : results'[s] \in [Stamps -> Nat]
    <3>1. DOMAIN q.in_flight = DOMAIN in_flight \ {r}
      BY <2>2, <2>5
    <3> QED
      BY <1>4, <2>1, <2>3, <2>5, <3>1
  <2> QED
    BY <2>4, <2>5 DEF Returns, r
<1>16. Accounted'
  <2>1. ASSUME NEW f \in queue' PROVE f.kind.request_id \in DOMAIN q.in_flight
    <3>1. CASE f \in queue /\ f # e
      BY <1>10, <3>1
    <3>2. CASE \E i \in DOMAIN q.events : f = NewEvent(q, i)
      BY <1>9, <3>2 DEF OnTime
    <3> QED
      BY <1>6, <3>1, <3>2 DEF Delivered
  <2>2. \A stage \in Stage : \A i \in DOMAIN q.waiting[stage] :
           q.waiting[stage][i] \in DOMAIN q.in_flight
    BY <1>1 DEF Committable, WaitsIn
  <2>3. ASSUME NEW s \in DOMAIN q.in_flight
        PROVE  \/ \E f \in queue' : f.kind.request_id = s
               \/ \E t \in Stage : WaitsIn(q, t, s)
    <3>1. ASSUME NEW i \in DOMAIN q.events, E(i).kind.request_id = s
          PROVE  \E f \in queue' : f.kind.request_id = s
      <4>1. NewEvent(q, i) \in queue' /\ NewEvent(q, i).kind.request_id = s
        BY <1>6, <1>9, <3>1 DEF Delivered
      <4> QED
        BY <4>1
    <3>2. CASE s = r
      BY <1>15, <3>1, <3>2
    <3>3. CASE s # r
      <4>1. s \in DOMAIN in_flight
        BY <1>1, <1>7, <3>3 DEF OthersMove
      <4>2. CASE \E f \in queue : f.kind.request_id = s
        <5>1. PICK f \in queue : f.kind.request_id = s
          BY <4>2
        <5>2. f # e
          BY <3>3, <5>1 DEF r
        <5> QED
          BY <1>6, <5>1, <5>2 DEF Delivered
      <4>3. CASE \E t \in Stage : Waits(t, s)
        <5>1. PICK t \in Stage : WaitsIn(q, t, s) \/ WorksIn(q, t, s)
          BY <1>1, <1>7, <3>3, <4>3 DEF OthersMove
        <5>2. CASE WorksIn(q, t, s)
          BY <3>1, <5>2 DEF WorksIn, E
        <5> QED
          BY <5>1, <5>2
      <4> QED
        BY <1>4, <4>1, <4>2, <4>3 DEF ServingInv, Accounted
    <3> QED
      BY <3>2, <3>3
  <2>4. \A s \in DOMAIN in_flight' : \/ \E f \in queue' : f.kind.request_id = s
                                     \/ \E t \in Stage : Waits(t, s)'
    BY <1>2, <2>3 DEF Waits, WaitsIn
  <2> QED
    BY <1>2, <1>15, <2>1, <2>2, <2>4 DEF Accounted
<1>17. TimelineHonest'
  <2>1. ASSUME NEW f \in queue'
        PROVE  /\ f.time_ns >= now
               /\ f.kind.tag = "RequestArrival" =>
                     f.time_ns = trace[f.kind.request_id].arrival_ns
               /\ f.kind.tag = "PrefillDone" =>
                     f.time_ns = q.in_flight[f.kind.request_id].prefill_done_ns
               /\ f.kind.tag = "DecodeDone" =>
                     f.time_ns = q.in_flight[f.kind.request_id].finish_ns
    <3>1. CASE f \in queue /\ f # e
      <4>1. q.in_flight[f.kind.request_id] = in_flight[f.kind.request_id]
        BY <1>10, <3>1
      <4>2. f.time_ns >= now
        BY <1>3, <3>1
      <4> QED
        BY <3>1, <4>1, <4>2 DEF ServingInv, TimelineHonest, Pending
    <3>2. CASE \E i \in DOMAIN q.events : f = NewEvent(q, i)
      BY <1>9, <3>2 DEF OnTime
    <3> QED
      BY <1>6, <3>1, <3>2 DEF Delivered
  <2> QED
    BY <1>1, <1>2, <2>1 DEF TimelineHonest, Pending
<1>18. Types(tiers, fetches)'
  <2>1. ASSUME NEW f \in queue' PROVE f \in EventOf(fetches)
    <3>1. CASE f \in queue
      BY <3>1, EventParts
    <3>2. CASE \E i \in DOMAIN q.events : f = NewEvent(q, i)
      BY <1>9, <3>2
    <3> QED
      BY <1>6, <3>1, <3>2 DEF Delivered
  <2>2. next_seq' \in Nat
    BY <1>6, <1>8 DEF Delivered
  <2>3. /\ q.busy_until \in [Gpu -> Nat] /\ q.in_flight \in Flights(tiers)
        /\ q.waiting \in [Stage -> Seq(Request)]
    BY <1>1 DEF Committable
  <2>4. queue' \subseteq EventOf(fetches)
    BY <2>1
  <2> QED
    BY <1>2, <1>3, <1>15, <2>2, <2>3, <2>4 DEF Types, EventOf
<1>19. Running' /\ TraceOK'
  BY <1>1, <1>4 DEF Running, TraceOK, ServingInv
<1> QED
  BY <1>13, <1>14, <1>16, <1>17, <1>18, <1>19 DEF ServingInv

-----------------------------------------------------------------------------
(* A run begins *)

NoSequence == DOMAIN <<>> = {} /\ Len(<<>>) = 0 /\ <<>> \in Seq(Request)

LEMMA NewFlightType ==
    ASSUME NEW tiers, None \in tiers
    PROVE  NewInFlight \in FlightOf(tiers)
BY ServingAssumption DEF NewInFlight, FlightOf, When, Stamps

LEMMA NewServingGood ==
    ASSUME NEW tiers, NEW fetches, NEW roles, NewServing(roles)
    PROVE  ServingInv(tiers, fetches)
<1>1. /\ now_ns = 0 /\ queue = {} /\ next_seq = 0 /\ trace = <<>>
      /\ busy_until = [g \in Gpu |-> 0] /\ in_flight = <<>>
      /\ waiting = EmptyQueues /\ results = <<>>
  BY DEF NewServing, NewSimulator
<1>2. NoSequence
  BY DEF NoSequence
<1>3. in_flight \in Flights(tiers)
  <2>1. in_flight \in [{} -> FlightOf(tiers)]
    BY <1>1
  <2> QED
    BY <2>1 DEF Flights
<1>4. waiting \in [Stage -> Seq(Request)] /\ \A s \in Stage : DOMAIN waiting[s] = {}
  BY <1>1, <1>2 DEF EmptyQueues, NoSequence
<1>5. DOMAIN results = {}
  BY <1>1, <1>2 DEF NoSequence
<1>6. Types(tiers, fetches)
  BY <1>1, <1>3, <1>4, <1>5 DEF Types
<1>7. InOnePlace
  BY <1>1, <1>4 DEF InOnePlace
<1>8. Numbered /\ TimelineHonest /\ NotStarted /\ ~Running
  BY <1>1 DEF Numbered, TimelineHonest, Pending, NotStarted, Running
<1> QED
  BY <1>6, <1>7, <1>8 DEF ServingInv

\* The arrivals are numbered in their order.
LEMMA ArrivalsNumbered ==
    ASSUME NEW tr, \A r \in Request : tr[r].arrival_ns \in Nat
    PROVE  /\ \A e \in Arrivals(tr) :
                 /\ e.kind.request_id \in Request
                 /\ e = [time_ns |-> tr[e.kind.request_id].arrival_ns, seq |-> e.seq,
                         kind |-> [tag |-> "RequestArrival",
                                   request_id |-> e.kind.request_id]]
                 /\ e.seq \in Nat /\ e.seq < Cardinality(Request)
           /\ \A e, f \in Arrivals(tr) : e.seq = f.seq => e = f
           /\ \A e, f \in Arrivals(tr) :
                 e.kind.request_id = f.kind.request_id => e = f
           /\ \A r \in Request : \E e \in Arrivals(tr) : e.kind.request_id = r
           /\ Cardinality(Request) \in Nat
<1> DEFINE R == {rs \in Request \X Request : ArrivesBefore(tr, rs[1], rs[2])}
           rank(r) == Cardinality({s \in Request : ArrivesBefore(tr, s, r)})
           A(r) == [time_ns |-> tr[r].arrival_ns, seq |-> rank(r),
                    kind |-> [tag |-> "RequestArrival", request_id |-> r]]
<1>1. IsFiniteSet(Request) /\ \A r \in Request : r \in Nat
  BY ServingAssumption
<1>2. Cardinality(Request) \in Nat
  BY <1>1, FS_CardinalityType
<1>3. \A s, r \in Request : <<s, r>> \in R <=> ArrivesBefore(tr, s, r)
  OBVIOUS
<1>4. Orders(R, Request)
  <2> HIDE DEF R
  <2>1. \A x \in Request : ~ArrivesBefore(tr, x, x)
    BY <1>1 DEF ArrivesBefore
  <2>2. \A x, y, z \in Request :
           ArrivesBefore(tr, x, y) /\ ArrivesBefore(tr, y, z) => ArrivesBefore(tr, x, z)
    BY <1>1 DEF ArrivesBefore
  <2>3. \A x, y \in Request :
           x # y => ArrivesBefore(tr, x, y) \/ ArrivesBefore(tr, y, x)
    BY <1>1 DEF ArrivesBefore
  <2> QED
    BY <1>3, <2>1, <2>2, <2>3 DEF Orders
<1>5. ASSUME NEW r \in Request PROVE PlaceIn(Request, R, r) = rank(r)
  <2>1. {s \in Request : <<s, r>> \in R} = {s \in Request : ArrivesBefore(tr, s, r)}
    BY <1>3
  <2> QED
    BY <2>1 DEF PlaceIn
<1>6. ASSUME NEW r \in Request
      PROVE  /\ rank(r) \in Nat /\ rank(r) < Cardinality(Request)
             /\ \A s \in Request : <<s, r>> \in R => rank(s) < rank(r)
  <2> HIDE DEF R, rank
  <2>1. /\ PlaceIn(Request, R, r) \in 0 .. (Cardinality(Request) - 1)
        /\ \A s \in Request :
              <<s, r>> \in R => PlaceIn(Request, R, s) < PlaceIn(Request, R, r)
    BY <1>1, <1>4, RankIncreases
  <2>2. rank(r) \in 0 .. (Cardinality(Request) - 1)
    BY <1>5, <2>1
  <2> QED
    BY <1>2, <1>5, <2>1, <2>2
<1> HIDE DEF R, rank
<1>7. ASSUME NEW r \in Request, NEW s \in Request, r # s PROVE rank(r) # rank(s)
  <2>1. <<r, s>> \in R \/ <<s, r>> \in R
    BY <1>4, <1>7 DEF Orders
  <2>2. rank(r) < rank(s) \/ rank(s) < rank(r)
    BY <1>6, <2>1
  <2>3. rank(r) \in Nat /\ rank(s) \in Nat
    BY <1>6
  <2> QED
    BY <2>2, <2>3
<1>8. Arrivals(tr) = {A(r) : r \in Request}
  BY DEF Arrivals, rank
<1>9. \A r \in Request : A(r).seq = rank(r) /\ A(r).kind.request_id = r
  OBVIOUS
<1>10. ASSUME NEW e \in Arrivals(tr)
       PROVE  \E r \in Request : e = A(r) /\ e.seq = rank(r) /\ e.kind.request_id = r
  <2>1. PICK r \in Request : e = A(r)
    BY <1>8
  <2>2. A(r).seq = rank(r) /\ A(r).kind.request_id = r
    BY <1>9
  <2> QED
    BY <2>1, <2>2
<1>11. ASSUME NEW e \in Arrivals(tr)
       PROVE /\ e.kind.request_id \in Request
             /\ e = [time_ns |-> tr[e.kind.request_id].arrival_ns, seq |-> e.seq,
                     kind |-> [tag |-> "RequestArrival",
                               request_id |-> e.kind.request_id]]
             /\ e.seq \in Nat /\ e.seq < Cardinality(Request)
  <2>1. PICK r \in Request : e = A(r) /\ e.seq = rank(r) /\ e.kind.request_id = r
    BY <1>10
  <2>2. rank(r) \in Nat /\ rank(r) < Cardinality(Request)
    BY <1>6
  <2>3. e = [time_ns |-> tr[r].arrival_ns, seq |-> rank(r),
             kind |-> [tag |-> "RequestArrival", request_id |-> r]]
    BY <2>1
  <2>4. e.kind.request_id \in Request /\ e.seq \in Nat
        /\ e.seq < Cardinality(Request)
    BY <2>1, <2>2
  <2> QED
    BY <2>1, <2>3, <2>4
<1>12. \A e, f \in Arrivals(tr) : e.seq = f.seq => e = f
  BY <1>7, <1>10
<1>13. \A e, f \in Arrivals(tr) : e.kind.request_id = f.kind.request_id => e = f
  BY <1>10
<1>14. \A r \in Request : \E e \in Arrivals(tr) : e.kind.request_id = r
  BY <1>8, <1>9
<1> QED
  BY <1>2, <1>11, <1>12, <1>13, <1>14

LEMMA StartServingGood ==
    ASSUME NEW tiers, None \in tiers, NEW fetches, NEW tr, StartServing(tr),
           ServingInv(tiers, fetches), tr # <<>>,
           \A r \in Request : /\ tr[r].arrival_ns \in Nat
                              /\ tr[r].prompt_tokens \in Tokens
                              /\ tr[r].output_tokens \in Nat
    PROVE  ServingInv(tiers, fetches)'
<1>1. /\ trace' = tr /\ now_ns' = 0 /\ queue' = Arrivals(tr)
      /\ next_seq' = Cardinality(Request)
      /\ in_flight' = [r \in Request |-> NewInFlight]
      /\ waiting' = EmptyQueues /\ results' = <<>> /\ busy_until' = busy_until
  BY DEF StartServing
<1>2. /\ \A e \in Arrivals(tr) :
            /\ e.kind.request_id \in Request
            /\ e = [time_ns |-> tr[e.kind.request_id].arrival_ns, seq |-> e.seq,
                    kind |-> [tag |-> "RequestArrival",
                              request_id |-> e.kind.request_id]]
            /\ e.seq \in Nat /\ e.seq < Cardinality(Request)
      /\ \A e, f \in Arrivals(tr) : e.seq = f.seq => e = f
      /\ \A e, f \in Arrivals(tr) :
            e.kind.request_id = f.kind.request_id => e = f
      /\ \A r \in Request : \E e \in Arrivals(tr) : e.kind.request_id = r
      /\ Cardinality(Request) \in Nat
  BY ArrivalsNumbered
<1>3. ASSUME NEW e \in Arrivals(tr)
      PROVE  /\ e \in EventOf(fetches) /\ e.time_ns \in Nat
             /\ e.kind.tag = "RequestArrival"
             /\ e.time_ns = tr[e.kind.request_id].arrival_ns
  <2> DEFINE r == e.kind.request_id
             k == [tag |-> "RequestArrival", request_id |-> r]
             n == e.seq
  <2>1. /\ e = [time_ns |-> tr[r].arrival_ns, seq |-> n, kind |-> k]
        /\ r \in Request /\ n \in Nat
    BY <1>2
  <2> HIDE DEF n, r
  <2>2. k \in ArrivalKind /\ k.tag = "RequestArrival"
    BY <2>1 DEF ArrivalKind
  <2>3. tr[r].arrival_ns \in Nat
    BY <2>1
  <2> HIDE DEF k
  <2>4. e \in EventOf(fetches) /\ e.time_ns = tr[r].arrival_ns /\ e.kind = k
    BY <2>1, <2>2, <2>3 DEF EventOf
  <2> QED
    BY <2>2, <2>3, <2>4 DEF r
<1>4. NoSequence
  BY DEF NoSequence
<1>5. /\ DOMAIN in_flight' = Request /\ in_flight' \in Flights(tiers)
  <2>1. in_flight' \in [Request -> FlightOf(tiers)]
    BY <1>1, NewFlightType
  <2> QED
    BY <2>1 DEF Flights
<1>6. /\ waiting' \in [Stage -> Seq(Request)]
      /\ \A s \in Stage : DOMAIN waiting'[s] = {}
  BY <1>1, <1>4 DEF EmptyQueues, NoSequence
<1>7. DOMAIN results' = {}
  BY <1>1, <1>4 DEF NoSequence
<1>8. Types(tiers, fetches)'
  <2>1. busy_until' \in [Gpu -> Nat]
    BY <1>1 DEF ServingInv, Types
  <2>2. queue' \subseteq EventOf(fetches)
    BY <1>1, <1>3
  <2> QED
    BY <1>1, <1>2, <1>5, <1>6, <1>7, <2>1, <2>2 DEF Types, EventOf
<1>9. Numbered'
  BY <1>1, <1>2 DEF Numbered
<1>10. InOnePlace'
  BY <1>1, <1>2, <1>6 DEF InOnePlace
<1>11. Accounted'
  BY <1>1, <1>2, <1>5, <1>6, <1>7 DEF Accounted
<1>12. TimelineHonest'
  BY <1>1, <1>3 DEF TimelineHonest, Pending
<1>13. Running' /\ TraceOK'
  BY <1>1 DEF Running, TraceOK
<1> QED
  BY <1>8, <1>9, <1>10, <1>11, <1>12, <1>13 DEF ServingInv

-----------------------------------------------------------------------------
(* What the invariant is for *)

\* A request is in one place.
LEMMA PlacedOnce ==
    ASSUME NEW tiers, NEW fetches, fetches \subseteq FetchKind,
           ServingInv(tiers, fetches)
    PROVE  OneWhere
<1> SUFFICES ASSUME Running, NEW r \in Request
             PROVE  /\ Cardinality(Places(r)) = 1
                    /\ r \in DOMAIN in_flight <=> r \notin DOMAIN results
  BY DEF OneWhere
<1>1. DOMAIN in_flight = Request \ DOMAIN results
  BY DEF ServingInv, Accounted
<1> DEFINE OfEvent(x) == \E e \in queue : e.kind.request_id = r /\ x = <<"event", e.seq>>
           OfQueue(x) == \E t \in Stage : \E i \in DOMAIN waiting[t] :
                            waiting[t][i] = r /\ x = <<t, i>>
           OfResult(x) == r \in DOMAIN results /\ x = <<"result", r>>
<1>2. \A x : x \in Places(r) <=> OfEvent(x) \/ OfQueue(x) \/ OfResult(x)
  <2> DEFINE A == {<<"event", e.seq>> : e \in {f \in queue : f.kind.request_id = r}}
             Q(t) == {<<t, i>> : i \in {j \in DOMAIN waiting[t] : waiting[t][j] = r}}
             B == UNION {Q(t) : t \in Stage}
             C == {<<"result", s>> : s \in DOMAIN results \cap {r}}
  <2>1. \A x : x \in A <=> OfEvent(x)
    OBVIOUS
  <2>2. \A t \in Stage : \A x :
           x \in Q(t) <=> \E i \in DOMAIN waiting[t] : waiting[t][i] = r /\ x = <<t, i>>
    OBVIOUS
  <2>3. \A x : x \in C <=> OfResult(x)
    OBVIOUS
  <2>4. Places(r) = A \cup B \cup C
    BY DEF Places
  <2> HIDE DEF Q
  <2>5. \A x : x \in B <=> \E t \in Stage : x \in Q(t)
    OBVIOUS
  <2>6. \A x : x \in B <=> OfQueue(x)
    <3> HIDE DEF B
    <3> QED
      BY <2>2, <2>5
  <2> HIDE DEF A, B, C, OfEvent, OfQueue, OfResult
  <2> QED
    BY <2>1, <2>3, <2>4, <2>6
<1>3. ASSUME \E e \in queue : e.kind.request_id = r
      PROVE  \E x : Places(r) = {x}
  <2>1. PICK e \in queue : e.kind.request_id = r
    BY <1>3
  <2>2. /\ r \in DOMAIN in_flight /\ \A t \in Stage : ~Waits(t, r)
        /\ \A f \in queue : f.kind.request_id = r => f = e
    BY <2>1, EventParts DEF ServingInv, InOnePlace
  <2>3. \A x : OfEvent(x) <=> x = <<"event", e.seq>>
    BY <2>1, <2>2
  <2>4. \A x : ~OfQueue(x) /\ ~OfResult(x)
    BY <1>1, <2>2 DEF Waits
  <2> HIDE DEF OfEvent, OfQueue, OfResult
  <2>5. Places(r) = {<<"event", e.seq>>}
    BY <1>2, <2>3, <2>4
  <2> QED
    BY <2>5
<1>4. ASSUME NEW t \in Stage, NEW i \in DOMAIN waiting[t], waiting[t][i] = r
      PROVE  \E x : Places(r) = {x}
  <2>1. \A e \in queue : e.kind.request_id # r
    BY <1>4 DEF ServingInv, InOnePlace
  <2>2. r \in DOMAIN in_flight
    BY <1>4 DEF ServingInv, Accounted
  <2>3. \A s \in Stage : \A j \in DOMAIN waiting[s] :
           waiting[s][j] = r => s = t /\ j = i
    BY <1>4 DEF ServingInv, InOnePlace
  <2>4. \A x : OfQueue(x) <=> x = <<t, i>>
    BY <1>4, <2>3
  <2>5. \A x : ~OfEvent(x) /\ ~OfResult(x)
    BY <1>1, <2>1, <2>2
  <2> HIDE DEF OfEvent, OfQueue, OfResult
  <2>6. Places(r) = {<<t, i>>}
    BY <1>2, <2>4, <2>5
  <2> QED
    BY <2>6
<1>5. ASSUME r \in DOMAIN results PROVE \E x : Places(r) = {x}
  <2>1. r \notin DOMAIN in_flight
    BY <1>1, <1>5
  <2>2. \A x : ~OfEvent(x)
    BY <2>1, EventParts
  <2>3. \A x : ~OfQueue(x)
    BY <2>1 DEF ServingInv, Accounted
  <2>4. \A x : OfResult(x) <=> x = <<"result", r>>
    BY <1>5
  <2> HIDE DEF OfEvent, OfQueue, OfResult
  <2>5. Places(r) = {<<"result", r>>}
    BY <1>2, <2>2, <2>3, <2>4
  <2> QED
    BY <2>5
<1>6. \/ \E e \in queue : e.kind.request_id = r
      \/ \E t \in Stage : \E i \in DOMAIN waiting[t] : waiting[t][i] = r
      \/ r \in DOMAIN results
  BY <1>1 DEF ServingInv, Accounted, Waits
<1>7. PICK x : Places(r) = {x}
  BY <1>3, <1>4, <1>5, <1>6
<1>8. Cardinality(Places(r)) = 1
  BY <1>7, FS_Singleton
<1> QED
  BY <1>1, <1>8

-----------------------------------------------------------------------------
(* Nobody waits for a wake-up that nobody will give *)

\* A GPU that is busy is so until the time of an event that frees it.
BusyAttended ==
    \A g \in Gpu : busy_until[g] > now_ns =>
        \E e \in GpuEvents : e.kind.gpu = g /\ e.time_ns = busy_until[g]

WorkInv == WorkConserving /\ BusyAttended

\* The handler of e, which begins with the GPU of e given back, in the pool p,
\* or with no such event, looks after the queues.
Tends(e, q, p) ==
    /\ BusyKept(q, p, ClockAt(e))
    /\ \/ /\ e \in GpuEvents
          /\ p.busy_until = [busy_until EXCEPT ![e.kind.gpu] = ClockAt(e)]
          /\ NoneIdle(q, ClockAt(e))
       \/ /\ e \notin GpuEvents
          /\ p.busy_until = busy_until
          /\ \A t \in Stage : \/ q.waiting[t] = <<>>
                              \/ q.waiting[t] = waiting[t]
                              \/ Idle(q.busy_until, ClockAt(e), t) = {}

LEMMA CommitTends ==
    ASSUME NEW tiers, NEW fetches, fetches \subseteq FetchKind,
           ServingInv(tiers, fetches), WorkInv, NEW e, NEW p, NEW q,
           Returns(e, q, tiers, fetches), Tends(e, q, p)
    PROVE  WorkInv'
<1> DEFINE now == ClockAt(e)
<1>1. /\ e \in queue /\ IsNext(e) /\ Commit(e, q)
      /\ Committable(q, tiers, fetches, now, e.kind.request_id)
  BY DEF Returns, IsNext
<1>2. /\ now_ns' = now /\ busy_until' = q.busy_until /\ waiting' = q.waiting
      /\ role' = role
  BY <1>1 DEF Commit, StepAndSchedule
<1>3. /\ now \in Nat /\ now_ns \in Nat /\ now_ns <= now
      /\ \A f \in queue : f.time_ns \in Nat /\ now <= f.time_ns
  BY <1>1, DeliveredOnTime
<1>4. busy_until \in [Gpu -> Nat] /\ q.busy_until \in [Gpu -> Nat]
  BY <1>1 DEF Committable, ServingInv, Types
<1>5. Delivered(e, q)
  <2>1. q.events \in Seq([time_ns : Nat, kind : fetches \cup GpuKind])
    BY <1>1 DEF Committable
  <2> QED
    BY <1>1, <2>1, CommittedQueue
\* the new GPU events
<1>6. ASSUME NEW g \in Gpu, Attends(q, g)
      PROVE  \E f \in GpuEvents' : /\ f.kind.gpu = g
                                   /\ f.time_ns = q.busy_until[g]
                                   /\ f.time_ns >= now
  <2>1. PICK i \in DOMAIN q.events : /\ q.events[i].kind \in GpuKind
                                     /\ q.events[i].kind.gpu = g
                                     /\ q.events[i].time_ns = q.busy_until[g]
    BY <1>6 DEF Attends
  <2>2. NewEvent(q, i) \in queue'
    BY <1>5 DEF Delivered
  <2>3. /\ NewEvent(q, i).kind = q.events[i].kind
        /\ NewEvent(q, i).time_ns = q.events[i].time_ns
    BY DEF NewEvent
  <2>4. q.events[i].time_ns >= now
    BY <1>1 DEF Committable, OnTime
  <2>5. q.events[i].kind.tag \in {"PrefillDone", "DecodeDone"}
    BY <2>1 DEF GpuKind
  <2> QED
    BY <2>1, <2>2, <2>3, <2>4, <2>5 DEF GpuEvents, Pending
<1>7. \A f \in GpuEvents : f \in queue /\ (f # e => f \in GpuEvents')
  BY <1>5 DEF Delivered, GpuEvents, Pending
<1> HIDE DEF now
\* a GPU that is busy now, and was not taken, was busy before
<1>8. ASSUME NEW g \in Gpu, q.busy_until[g] > now
      PROVE  \E f \in GpuEvents' : f.kind.gpu = g /\ f.time_ns = q.busy_until[g]
  <2>1. CASE Attends(q, g)
    BY <1>6, <2>1
  <2>2. CASE q.busy_until[g] = p.busy_until[g]
    <3>1. /\ busy_until[g] = q.busy_until[g]
          /\ e \in GpuEvents => e.kind.gpu # g
      <4>1. CASE e \in GpuEvents
        <5>1. p.busy_until = [busy_until EXCEPT ![e.kind.gpu] = now]
          BY <4>1 DEF Tends, now
        <5>2. q.busy_until[g] # now
          BY <1>3, <1>4, <1>8
        <5>3. e.kind.gpu # g
          BY <1>4, <2>2, <5>1, <5>2
        <5> QED
          BY <1>4, <2>2, <5>1, <5>3
      <4>2. CASE e \notin GpuEvents
        BY <2>2, <4>2 DEF Tends
      <4> QED
        BY <4>1, <4>2
    <3>2. busy_until[g] > now_ns
      BY <1>3, <1>4, <1>8, <3>1
    <3>3. PICK f \in GpuEvents : f.kind.gpu = g /\ f.time_ns = busy_until[g]
      BY <3>2 DEF WorkInv, BusyAttended
    <3>4. f # e
      BY <3>1, <3>3
    <3> QED
      BY <1>7, <3>1, <3>3, <3>4
  <2> QED
    BY <2>1, <2>2 DEF Tends, BusyKept, now
<1>9. BusyAttended'
  BY <1>2, <1>8 DEF BusyAttended
\* a stage that no GPU is idle for
<1>10. ASSUME NEW t \in Stage, NEW g \in Gpu, Serves(g, t),
              Idle(q.busy_until, now, t) = {}
       PROVE  \E f \in GpuEvents' : f.kind.gpu = g /\ ~(q.busy_until[g] <= now)
  <2>1. ~(q.busy_until[g] <= now)
    BY <1>10 DEF Idle
  <2>2. q.busy_until[g] > now
    BY <1>3, <1>4, <2>1
  <2> QED
    BY <1>8, <2>1, <2>2
\* a queue that was not empty before, with all GPU events still to come
<1>11. ASSUME NEW t \in Stage, NEW g \in Gpu, Serves(g, t), waiting[t] # <<>>,
              e \notin GpuEvents
       PROVE  \E f \in GpuEvents' : /\ f.kind.gpu = g
                                    /\ q.busy_until[g] <= now => f.time_ns = now
  <2>1. CASE q.busy_until[g] > now
    <3>1. ~(q.busy_until[g] <= now)
      BY <1>3, <1>4, <2>1
    <3> QED
      BY <1>8, <2>1, <3>1
  <2>2. CASE ~(q.busy_until[g] > now) /\ Attends(q, g)
    <3>1. PICK f \in GpuEvents' : /\ f.kind.gpu = g
                                  /\ f.time_ns = q.busy_until[g]
                                  /\ f.time_ns >= now
      BY <1>6, <2>2
    <3>2. q.busy_until[g] \in Nat
      BY <1>4
    <3>3. f.time_ns = now
      BY <1>3, <2>2, <3>1, <3>2
    <3> QED
      BY <3>1, <3>3
  <2>3. CASE ~(q.busy_until[g] > now) /\ q.busy_until[g] = p.busy_until[g]
    <3>1. busy_until[g] = q.busy_until[g] /\ busy_until[g] \in Nat
      BY <1>4, <1>11, <2>3 DEF Tends
    <3>2. CASE busy_until[g] <= now_ns
      <4>1. PICK f \in GpuEvents : f.kind.gpu = g /\ f.time_ns = now_ns
        BY <1>11, <3>2 DEF WorkInv, WorkConserving
      <4>2. now <= f.time_ns /\ f # e
        BY <1>3, <1>7, <1>11, <4>1
      <4>3. f.time_ns = now
        BY <1>3, <4>1, <4>2
      <4> QED
        BY <1>7, <4>1, <4>2, <4>3
    <3>3. CASE busy_until[g] > now_ns
      <4>1. PICK f \in GpuEvents : f.kind.gpu = g /\ f.time_ns = busy_until[g]
        BY <3>3 DEF WorkInv, BusyAttended
      <4>2. now <= f.time_ns /\ f # e
        BY <1>3, <1>7, <1>11, <4>1
      <4>3. f.time_ns = now
        BY <1>3, <2>3, <3>1, <4>1, <4>2
      <4> QED
        BY <1>7, <4>1, <4>2, <4>3
    <3> QED
      BY <1>3, <3>1, <3>2, <3>3
  <2> QED
    BY <2>1, <2>2, <2>3 DEF Tends, BusyKept, now
<1>12. ASSUME NEW t \in Stage, NEW g \in Gpu, Serves(g, t), q.waiting[t] # <<>>
       PROVE  \E f \in GpuEvents' : /\ f.kind.gpu = g
                                    /\ q.busy_until[g] <= now => f.time_ns = now
  <2>1. \/ Idle(q.busy_until, now, t) = {}
        \/ e \notin GpuEvents /\ waiting[t] # <<>>
    BY <1>12 DEF Tends, NoneIdle, now
  <2> QED
    BY <1>10, <1>11, <1>12, <2>1
<1>13. WorkConserving'
  <2> SUFFICES ASSUME NEW t \in Stage, NEW g \in Gpu,
                      waiting'[t] # <<>>, Serves(g, t)'
               PROVE  \E f \in GpuEvents' :
                         /\ f.kind.gpu = g
                         /\ busy_until'[g] <= now_ns' => f.time_ns = now_ns'
    BY DEF WorkConserving
  <2>1. Serves(g, t) /\ q.waiting[t] # <<>>
    BY <1>2 DEF Serves
  <2> QED
    BY <1>2, <1>12, <2>1
<1> QED
  BY <1>9, <1>13 DEF WorkInv

-----------------------------------------------------------------------------
(* From the delivery of an event to the return of its handler *)

\* A pool as it may be before the request of e is sent on: only GPUs and that
\* request have changed.
Begins(o, tiers, e) ==
    /\ PoolGood(o, tiers, ClockAt(e))
    /\ o.waiting = waiting
    /\ o.events = <<>>
    /\ DOMAIN o.in_flight = DOMAIN in_flight
    /\ \A s \in DOMAIN in_flight \ {e.kind.request_id} :
          o.in_flight[s] = in_flight[s]

LEMMA PoolBegins ==
    ASSUME NEW tiers, NEW fetches, fetches \subseteq FetchKind,
           ServingInv(tiers, fetches), NEW e, IsNext(e)
    PROVE  Begins(Pool, tiers, e)
<1>1. e \in queue /\ ClockAt(e) \in Nat
  BY DeliveredOnTime DEF IsNext
<1>2. Running
  BY <1>1, EventParts
<1> QED
  BY <1>1, <1>2, PoolIsGood DEF Begins

LEMMA BegunParts ==
    ASSUME NEW tiers, NEW fetches, fetches \subseteq FetchKind,
           ServingInv(tiers, fetches), NEW e, IsNext(e), NEW o, Begins(o, tiers, e)
    PROVE  /\ TraceOK /\ Running /\ e \in queue /\ ClockAt(e) \in Nat
           /\ e.kind.request_id \in DOMAIN o.in_flight
           /\ ~HeldIn(o, e.kind.request_id)
           /\ OthersMove(o, Pool, e.kind.request_id)
           /\ PoolGood(o, tiers, ClockAt(e))
           /\ Pool.waiting = waiting /\ Pool.in_flight = in_flight
<1> DEFINE r == e.kind.request_id
<1>1. e \in queue /\ ClockAt(e) \in Nat
  BY DeliveredOnTime DEF IsNext
<1>2. Running /\ r \in DOMAIN in_flight /\ \A t \in Stage : ~Waits(t, r)
  BY <1>1, EventParts
<1>3. /\ Pool.in_flight = in_flight /\ Pool.waiting = waiting
      /\ \A t \in Stage : \A s : /\ WaitsIn(Pool, t, s) <=> Waits(t, s)
                                 /\ ~WorksIn(Pool, t, s)
  BY <1>1, <1>2, PoolIsGood
<1>4. \A t \in Stage : \A s : /\ WaitsIn(o, t, s) <=> Waits(t, s)
                              /\ ~WorksIn(o, t, s)
  <2>1. DOMAIN o.events = {}
    BY DEF Begins
  <2> QED
    BY <2>1 DEF Begins, WaitsIn, WorksIn, Waits
<1>5. ~HeldIn(o, r)
  BY <1>2, <1>4 DEF HeldIn
<1>6. OthersMove(o, Pool, r)
  BY <1>3, <1>4 DEF Begins, OthersMove
<1>7. TraceOK
  BY <1>2 DEF ServingInv
<1> QED
  BY <1>1, <1>2, <1>3, <1>5, <1>6, <1>7 DEF Begins

\* The request has been sent on to a stage.
LEMMA SentReturns ==
    ASSUME NEW tiers, NEW fetches, fetches \subseteq FetchKind,
           ServingInv(tiers, fetches), NEW e, IsNext(e), NEW o, Begins(o, tiers, e),
           NEW stage \in Stage, NEW q, PoolGood(q, tiers, ClockAt(e)),
           SentOn(q, o, ClockAt(e), stage, e.kind.request_id),
           Commit(e, q), trace' = trace, results' = results
    PROVE  /\ Returns(e, q, tiers, fetches)
           /\ InLine(q, Pool, stage, e.kind.request_id)
<1> DEFINE r == e.kind.request_id
           now == ClockAt(e)
<1>1. /\ now \in Nat /\ r \in DOMAIN o.in_flight
      /\ OthersMove(o, Pool, r) /\ Pool.waiting = waiting
  BY BegunParts
<1>2. OthersMove(q, Pool, r)
  BY <1>1 DEF SentOn, Keeps, OthersMove
<1>3. Committable(q, tiers, fetches, now, r)
  BY <1>1, GoodIsCommittable
<1>4. InLine(q, Pool, stage, r)
  BY <1>1 DEF SentOn, InLine, Begins
<1>5. r \in DOMAIN q.in_flight
  BY <1>1 DEF SentOn
<1>6. \/ \E t \in Stage : WaitsIn(q, t, r)
      \/ \E i \in DOMAIN q.events : q.events[i].kind.request_id = r
  <2>1. IsIn(q, stage, r)
    BY DEF SentOn
  <2> QED
    BY <2>1 DEF IsIn, WorksIn
<1> QED
  BY <1>2, <1>3, <1>4, <1>5, <1>6 DEF Returns

\* A request is sent on from its arrival or a fetch, and the queues are left.
LEMMA SendReturns ==
    ASSUME NEW tiers, NEW fetches, fetches \subseteq FetchKind,
           ServingInv(tiers, fetches), NEW e, IsNext(e), NEW o, Begins(o, tiers, e),
           NEW stage \in Stage, e \notin GpuEvents, o.busy_until = busy_until,
           NEW q, q = StartOrQueue(o, ClockAt(e), stage, e.kind.request_id),
           Commit(e, q), trace' = trace, results' = results
    PROVE  /\ Returns(e, q, tiers, fetches)
           /\ Tends(e, q, o)
           /\ InLine(q, Pool, stage, e.kind.request_id)
           /\ IsIn(q, stage, e.kind.request_id)
<1> DEFINE r == e.kind.request_id
           now == ClockAt(e)
<1>1. /\ TraceOK /\ now \in Nat /\ r \in DOMAIN o.in_flight /\ ~HeldIn(o, r)
      /\ PoolGood(o, tiers, now)
  BY BegunParts
<1>2. /\ PoolGood(q, tiers, now) /\ SentOn(q, o, now, stage, r)
      /\ \A t \in Stage : \/ q.waiting[t] = o.waiting[t]
                          \/ Idle(q.busy_until, now, t) = {}
  BY <1>1, SendGood
<1>3. Returns(e, q, tiers, fetches) /\ InLine(q, Pool, stage, r)
  BY <1>2, SentReturns
<1>4. Tends(e, q, o)
  BY <1>2 DEF Tends, SentOn, Keeps, Begins
<1>5. IsIn(q, stage, r)
  BY <1>2 DEF SentOn
<1> QED
  BY <1>3, <1>4, <1>5

\* A request is sent on, and the queues are looked at.
LEMMA SendAndTryReturns ==
    ASSUME NEW tiers, NEW fetches, fetches \subseteq FetchKind,
           ServingInv(tiers, fetches), NEW e, IsNext(e), NEW o, Begins(o, tiers, e),
           NEW stage \in Stage, NEW a \in Stage, NEW b \in Stage, a # b,
           \/ /\ e \in GpuEvents
              /\ o.busy_until = [busy_until EXCEPT ![e.kind.gpu] = ClockAt(e)]
           \/ e \notin GpuEvents /\ o.busy_until = busy_until,
           NEW n, n = StartOrQueue(o, ClockAt(e), stage, e.kind.request_id),
           NEW p \in TryAssign(n, ClockAt(e), a), NEW q \in TryAssign(p, ClockAt(e), b),
           Commit(e, q), trace' = trace, results' = results
    PROVE  /\ Returns(e, q, tiers, fetches)
           /\ Tends(e, q, o)
           /\ InLine(q, Pool, stage, e.kind.request_id)
           /\ IsIn(q, stage, e.kind.request_id)
<1> DEFINE r == e.kind.request_id
           now == ClockAt(e)
<1>1. /\ TraceOK /\ now \in Nat /\ r \in DOMAIN o.in_flight /\ ~HeldIn(o, r)
      /\ PoolGood(o, tiers, now)
  BY BegunParts
<1>2. PoolGood(q, tiers, now) /\ SentOn(q, o, now, stage, r) /\ NoneIdle(q, now)
  BY <1>1, SendAndTryGood
<1>3. Returns(e, q, tiers, fetches) /\ InLine(q, Pool, stage, r)
  BY <1>2, SentReturns
<1>4. Tends(e, q, o)
  BY <1>2 DEF Tends, SentOn, Keeps, NoneIdle
<1>5. IsIn(q, stage, r)
  BY <1>2 DEF SentOn
<1> QED
  BY <1>3, <1>4, <1>5

\* The GPU of an event that gives it back.
LEMMA ReleasedBegins ==
    ASSUME NEW tiers, NEW fetches, fetches \subseteq FetchKind,
           ServingInv(tiers, fetches), NEW e, IsNext(e), e \in GpuEvents,
           NEW o, o = Released(Pool, e.kind.gpu, ClockAt(e))
    PROVE  /\ Begins(o, tiers, e)
           /\ o.busy_until = [busy_until EXCEPT ![e.kind.gpu] = ClockAt(e)]
<1>1. e \in queue /\ ClockAt(e) \in Nat
  BY DeliveredOnTime DEF IsNext
<1>2. e.kind.gpu \in Gpu
  <2>1. e.kind \in ArrivalKind \cup fetches \cup GpuKind
    BY <1>1, EventParts
  <2>2. e.kind.tag \in {"PrefillDone", "DecodeDone"}
    BY DEF GpuEvents, Pending
  <2>3. e.kind \in GpuKind
    BY <2>1, <2>2 DEF ArrivalKind, FetchKind
  <2> QED
    BY <2>3 DEF GpuKind
<1>3. Begins(Pool, tiers, e)
  BY PoolBegins
<1>4. PoolGood(Pool, tiers, ClockAt(e)) /\ Pool.busy_until = busy_until
  BY <1>3 DEF Begins, Pool
<1>5. /\ PoolGood(o, tiers, ClockAt(e))
      /\ o.in_flight = Pool.in_flight /\ o.waiting = Pool.waiting
      /\ o.events = Pool.events
      /\ o.busy_until = [Pool.busy_until EXCEPT ![e.kind.gpu] = ClockAt(e)]
  BY <1>1, <1>2, <1>4, ReleasedGood
<1> QED
  BY <1>3, <1>4, <1>5 DEF Begins

\* The timeline of a request in flight.
LEMMA TimelineType ==
    ASSUME NEW tiers, NEW fetches, ServingInv(tiers, fetches), Running,
           NEW r \in DOMAIN in_flight
    PROVE  Timeline(r) \in [Stamps -> Nat]
<1>1. in_flight[r] \in FlightOf(tiers) /\ r \in Request
  BY DEF ServingInv, Types, Flights
<1>2. trace[r].arrival_ns \in Nat
  BY <1>1 DEF ServingInv, TraceOK
<1>3. \A f \in Stamps : in_flight[r][f] \in When
  BY <1>1 DEF FlightOf, Stamps
<1> QED
  BY <1>2, <1>3 DEF Timeline, When

LEMMA DecodeDoneReturns ==
    ASSUME NEW tiers, NEW fetches, fetches \subseteq FetchKind,
           ServingInv(tiers, fetches), NEW e, IsNext(e), e.kind.tag = "DecodeDone",
           DecodeDone(e)
    PROVE  \E q, o : /\ Returns(e, q, tiers, fetches)
                     /\ Tends(e, q, o)
                     /\ InLine(q, Pool, "Decode", e.kind.request_id)
                     /\ e.kind.request_id \in DOMAIN results'
<1> DEFINE r == e.kind.request_id
           now == ClockAt(e)
           o == Released(Pool, e.kind.gpu, now)
           p1 == Finalized(o, r)
<1>1. e \in GpuEvents
  BY DEF GpuEvents, Pending, IsNext
<1>2. /\ Begins(o, tiers, e)
      /\ o.busy_until = [busy_until EXCEPT ![e.kind.gpu] = now]
  BY <1>1, ReleasedBegins
<1>3. /\ TraceOK /\ Running /\ now \in Nat /\ r \in DOMAIN o.in_flight
      /\ ~HeldIn(o, r) /\ PoolGood(o, tiers, now)
      /\ OthersMove(o, Pool, r) /\ Pool.waiting = waiting
  BY <1>2, BegunParts
<1>4. PICK p2 \in TryAssign(p1, now, "Decode") :
         \E p3 \in TryAssign(p2, now, "Prefill") : Commit(e, p3)
  BY DEF DecodeDone
<1>4a. PICK p3 \in TryAssign(p2, now, "Prefill") : Commit(e, p3)
  BY <1>4
<1>5. /\ trace' = trace
      /\ results' = [s \in DOMAIN results \cup {r} |->
                       IF s = r THEN Timeline(r) ELSE results[s]]
  BY DEF DecodeDone
<1> HIDE DEF o
<1>6. /\ PoolGood(p1, tiers, now)
      /\ p1.busy_until = o.busy_until /\ p1.waiting = o.waiting
      /\ p1.events = o.events
      /\ DOMAIN p1.in_flight = DOMAIN o.in_flight \ {r}
      /\ \A s \in DOMAIN p1.in_flight : p1.in_flight[s] = o.in_flight[s]
  <2> DEFINE s == r
  <2>1. p1 = Finalized(o, s) /\ ~HeldIn(o, s) /\ PoolGood(o, tiers, now)
        /\ now \in Nat
    BY <1>3
  <2> HIDE DEF p1, s, now
  <2>2. PoolGood(p1, tiers, now) /\ FinalizedRight(p1, o, s)
    BY <2>1, FinalizedGood
  <2> QED
    BY <2>2 DEF FinalizedRight, s
<1> HIDE DEF p1
<1>7. PoolGood(p3, tiers, now) /\ BothTried(p3, p1, now)
  <2>1. "Decode" \in Stage /\ "Prefill" \in Stage /\ "Decode" # "Prefill"
    BY DEF Stage
  <2> QED
    BY <1>3, <1>4, <1>4a, <1>6, <2>1, TryBothGood
<1>8. OthersMove(p3, Pool, r)
  <2>1. OthersMove(p1, o, r)
    BY <1>6 DEF OthersMove, WaitsIn, WorksIn
  <2>2. OthersMove(p3, p1, r)
    BY <1>7 DEF BothTried, Keeps
  <2> QED
    BY <1>3, <2>1, <2>2 DEF OthersMove
<1>9. Committable(p3, tiers, fetches, now, r)
  BY <1>3, <1>7, GoodIsCommittable
<1>10. r \notin DOMAIN p3.in_flight
  BY <1>6, <1>7 DEF BothTried
<1>11. /\ DOMAIN results' = DOMAIN results \cup {r}
       /\ \A s \in DOMAIN results' : results'[s] \in [Stamps -> Nat]
  <2>1. r \in DOMAIN in_flight
    BY <1>2, <1>3 DEF Begins
  <2>2. Timeline(r) \in [Stamps -> Nat]
    BY <1>3, <2>1, TimelineType
  <2> QED
    BY <1>5, <2>2 DEF ServingInv, Types
<1>12. Returns(e, p3, tiers, fetches)
  BY <1>4a, <1>5, <1>8, <1>9, <1>10, <1>11 DEF Returns
<1>13. Tends(e, p3, p1)
  BY <1>1, <1>2, <1>6, <1>7 DEF Tends, BothTried, Keeps
<1>14. InLine(p3, Pool, "Decode", r)
  BY <1>2, <1>3, <1>6, <1>7 DEF BothTried, Begins, InLine
<1> QED
  BY <1>11, <1>12, <1>13, <1>14

-----------------------------------------------------------------------------
(* Nobody is overtaken *)

LEMMA NobodyOvertaken ==
    ASSUME NEW tiers, NEW fetches, ServingInv(tiers, fetches),
           NEW r \in Request, \A t \in Stage : ~Waits(t, r),
           NEW stage \in Stage, NEW q, q.waiting \in [Stage -> Seq(Request)],
           InLine(q, Pool, stage, r), waiting' = q.waiting,
           NEW t \in Stage
    PROVE  ~Overtakes(t)
<1> DEFINE u == waiting[t]
           v == q.waiting[t]
<1>1. u \in Seq(Request) /\ v \in Seq(Request)
  BY DEF ServingInv, Types
<1>2. Pool.waiting = waiting
  BY DEF Pool
<1>3. \A i, j \in DOMAIN u : u[i] = u[j] => i = j
  BY DEF ServingInv, InOnePlace
<1>4. \A i \in DOMAIN u : u[i] # r
  BY DEF Waits
<1>5. /\ DOMAIN u = 1 .. Len(u) /\ Len(u) \in Nat
      /\ DOMAIN v = 1 .. Len(v) /\ Len(v) \in Nat
  BY <1>1
\* v is the rest of a sequence that begins like u
<1>6. \E w : /\ RestOf(v, w) /\ Len(w) \in Nat /\ Len(u) <= Len(w)
             /\ \A i \in DOMAIN u : w[i] = u[i]
             /\ \A i \in 1 .. Len(w) : i \in DOMAIN u \/ w[i] = r
  <2>1. RestOf(v, u) \/ RestOf(v, Append(u, r))
    BY <1>2 DEF InLine
  <2>2. CASE RestOf(v, u)
    BY <1>5, <2>2
  <2>3. CASE RestOf(v, Append(u, r))
    <3> DEFINE w == Append(u, r)
    <3>1. /\ DOMAIN u = 1 .. Len(u) /\ Len(u) \in Nat
          /\ w \in Seq(Request) /\ DOMAIN w = 1 .. (Len(u) + 1)
          /\ \A i \in DOMAIN u : w[i] = u[i]
          /\ w[Len(u) + 1] = r
      BY <1>1, AppendParts
    <3>2. Len(w) = Len(u) + 1
      BY <1>1
    <3> HIDE DEF w, u
    <3>3. /\ Len(w) \in Nat /\ Len(u) <= Len(w)
          /\ \A i \in 1 .. Len(w) : i \in DOMAIN u \/ w[i] = r
      BY <3>1, <3>2
    <3> QED
      BY <2>3, <3>1, <3>3 DEF w
  <2> QED
    BY <2>1, <2>2, <2>3
<1>7. PICK w : /\ RestOf(v, w) /\ Len(w) \in Nat /\ Len(u) <= Len(w)
               /\ \A i \in DOMAIN u : w[i] = u[i]
               /\ \A i \in 1 .. Len(w) : i \in DOMAIN u \/ w[i] = r
  BY <1>6
<1>8. PICK n \in Nat : Len(w) = Len(v) + n /\ \A k \in DOMAIN v : v[k] = w[n + k]
  BY <1>7 DEF RestOf
<1> HIDE DEF u, v
<1>9. ASSUME NEW i \in DOMAIN u, NEW j \in DOMAIN u, i < j,
             NEW k \in DOMAIN v, v[k] = u[i]
      PROVE  \E l \in DOMAIN v : v[l] = u[j]
  <2>1. n + k \in 1 .. Len(w)
    BY <1>5, <1>8
  <2>2. w[n + k] = u[i] /\ w[n + k] # r
    BY <1>4, <1>8, <1>9
  <2>3. n + k = i
    BY <1>3, <1>7, <2>1, <2>2
  <2>4. j - n \in DOMAIN v /\ n + (j - n) = j
    BY <1>5, <1>7, <1>8, <1>9, <2>3
  <2>5. v[j - n] = w[j] /\ w[j] = u[j]
    BY <1>7, <1>8, <2>4
  <2> QED
    BY <2>4, <2>5
<1>10. /\ \A i \in DOMAIN u : waiting[t][i] = u[i]
       /\ waiting'[t] = v /\ waiting[t] = u
  BY DEF u, v
<1> QED
  BY <1>9, <1>10 DEF Overtakes

-----------------------------------------------------------------------------
(* The phases of the requests *)

WaitingPhase(stage) == IF stage = "Prefill" THEN "PrefillQueued" ELSE "DecodeQueued"

\* The phase of a request, by its place.
PhasesKnown ==
    Running =>
    \A r \in Request :
        /\ r \in DOMAIN results => PhaseOf(r) = "Done"
        /\ \A t \in Stage : Waits(t, r) => PhaseOf(r) = WaitingPhase(t)
        /\ \A e \in queue :
              e.kind.request_id = r => PhaseOf(r) = PhaseOfTag[e.kind.tag]
        /\ \/ r \in DOMAIN results
           \/ \E t \in Stage : Waits(t, r)
           \/ \E e \in queue : e.kind.request_id = r

LEMMA PhasesAreKnown ==
    ASSUME NEW tiers, NEW fetches, fetches \subseteq FetchKind
    PROVE  ServingInv(tiers, fetches) => PhasesKnown
<1> SUFFICES ASSUME ServingInv(tiers, fetches), Running, NEW r \in Request
             PROVE  /\ r \in DOMAIN results => PhaseOf(r) = "Done"
                    /\ \A t \in Stage : Waits(t, r) => PhaseOf(r) = WaitingPhase(t)
                    /\ \A e \in queue : e.kind.request_id = r =>
                                           PhaseOf(r) = PhaseOfTag[e.kind.tag]
                    /\ \/ r \in DOMAIN results
                       \/ \E t \in Stage : Waits(t, r)
                       \/ \E e \in queue : e.kind.request_id = r
  BY DEF PhasesKnown
<1>1. Accounted /\ InOnePlace /\ trace # <<>>
  BY DEF ServingInv, Running
<1>2. r \in DOMAIN results => PhaseOf(r) = "Done"
  BY <1>1 DEF PhaseOf
<1>3. ASSUME NEW t \in Stage, Waits(t, r) PROVE PhaseOf(r) = WaitingPhase(t)
  <2>1. r \notin DOMAIN results
    BY <1>1, <1>3 DEF Accounted, Waits
  <2>2. t = "Decode" => ~Waits("Prefill", r)
    BY <1>1, <1>3 DEF InOnePlace, Waits, Stage
  <2> QED
    BY <1>1, <1>3, <2>1, <2>2 DEF PhaseOf, WaitingPhase, Stage
<1>4. ASSUME NEW e \in queue, e.kind.request_id = r
      PROVE  PhaseOf(r) = PhaseOfTag[e.kind.tag]
  <2>1. r \in DOMAIN in_flight /\ \A t \in Stage : ~Waits(t, r)
    BY <1>4, EventParts
  <2>2. r \notin DOMAIN results
    BY <1>1, <2>1 DEF Accounted
  <2>3. (CHOOSE f \in queue : f.kind.request_id = r) = e
    BY <1>1, <1>4 DEF InOnePlace
  <2> QED
    BY <1>1, <2>1, <2>2, <2>3 DEF PhaseOf, Stage
<1>5. \/ r \in DOMAIN results
      \/ \E t \in Stage : Waits(t, r)
      \/ \E e \in queue : e.kind.request_id = r
  BY <1>1 DEF Accounted
<1> QED
  BY <1>2, <1>3, <1>4, <1>5

\* The phases of those who work, and that nobody else is in them.
LEMMA PhasesOfEvents ==
    /\ PhaseOfTag["RequestArrival"] = "Arriving"
    /\ PhaseOfTag["FetchDone"] = "Fetching"
    /\ \A t \in Stage : PhaseOfTag[Done(t)] = t
BY DEF PhaseOfTag, Done, Stage

\* Whoever waits for a stage that a GPU serves is not the only one in flight.
SomebodyServes ==
    \A r \in Request, stage \in Staffed :
        PhaseOf(r) = WaitingPhase(stage) =>
            \E s \in Request : PhaseOf(s) \in {"Prefill", "Decode"}

LEMMA SomebodyDoesServe ==
    ASSUME NEW tiers, NEW fetches, fetches \subseteq FetchKind
    PROVE  ServingInv(tiers, fetches) /\ WorkConserving => SomebodyServes
<1> SUFFICES ASSUME ServingInv(tiers, fetches), WorkConserving,
                    NEW r \in Request, NEW stage \in Staffed,
                    PhaseOf(r) = WaitingPhase(stage)
             PROVE  \E s \in Request : PhaseOf(s) \in {"Prefill", "Decode"}
  BY DEF SomebodyServes
<1>1. stage \in Stage
  BY DEF Staffed
<1>2. Running
  BY DEF PhaseOf, WaitingPhase, Running
<1>3. PhasesKnown
  BY PhasesAreKnown
<1>4. Waits(stage, r)
  <2>1. CASE r \in DOMAIN results
    BY <1>2, <1>3, <2>1 DEF PhasesKnown, WaitingPhase
  <2>2. CASE \E t \in Stage : Waits(t, r)
    BY <1>1, <1>2, <1>3, <2>2 DEF PhasesKnown, WaitingPhase, Stage
  <2>3. CASE \E e \in queue : e.kind.request_id = r
    <3>1. PICK e \in queue : e.kind.request_id = r
      BY <2>3
    <3>2. e.kind \in ArrivalKind \cup fetches \cup GpuKind
      BY EventParts
    <3>3. e.kind.tag \in {"RequestArrival", "FetchDone", "PrefillDone", "DecodeDone"}
      BY <3>2 DEF ArrivalKind, FetchKind, GpuKind
    <3>4. PhaseOf(r) = PhaseOfTag[e.kind.tag]
      BY <1>2, <1>3, <3>1 DEF PhasesKnown
    <3>5. PhaseOfTag[e.kind.tag] \notin {"PrefillQueued", "DecodeQueued"}
      BY <3>3 DEF PhaseOfTag
    <3> QED
      BY <3>4, <3>5 DEF WaitingPhase
  <2> QED
    BY <1>2, <1>3, <2>1, <2>2, <2>3 DEF PhasesKnown
<1>5. PICK g \in Gpu : Serves(g, stage)
  BY DEF Staffed
<1>6. waiting[stage] # <<>>
  <2>1. waiting[stage] \in Seq(Request) /\ \E i \in DOMAIN waiting[stage] : TRUE
    BY <1>1, <1>4 DEF Waits, ServingInv, Types
  <2> QED
    BY <2>1
<1>7. PICK e \in GpuEvents : TRUE
  BY <1>1, <1>5, <1>6 DEF WorkConserving
<1>8. /\ e \in queue /\ e.kind.request_id \in Request
      /\ e.kind.tag \in {"PrefillDone", "DecodeDone"}
  BY <1>7, EventParts DEF GpuEvents, Pending
<1>9. PhaseOf(e.kind.request_id) = PhaseOfTag[e.kind.tag]
  BY <1>2, <1>3, <1>8 DEF PhasesKnown
<1>10. PhaseOfTag[e.kind.tag] \in {"Prefill", "Decode"}
  BY <1>8 DEF PhaseOfTag
<1> QED
  BY <1>8, <1>9, <1>10

\* The phases after the handler of e: its request has moved on, and others have
\* at most begun what they waited for.
PhasesMoved(e, q) ==
    LET r == e.kind.request_id
    IN  /\ PhaseOf(r) = PhaseOfTag[e.kind.tag]
        /\ \A t \in Stage : IsIn(q, t, r) => PhaseOf(r)' \in {WaitingPhase(t), t}
        /\ r \in DOMAIN results' => PhaseOf(r)' = "Done"
        /\ \A s \in Request \ {r} :
              \/ PhaseOf(s)' = PhaseOf(s)
              \/ \E t \in Stage : PhaseOf(s) = WaitingPhase(t) /\ PhaseOf(s)' = t

LEMMA CommitMoves ==
    ASSUME NEW tiers, NEW fetches, fetches \subseteq FetchKind,
           ServingInv(tiers, fetches), PhasesKnown, PhasesKnown',
           NEW e, NEW q, Returns(e, q, tiers, fetches)
    PROVE  PhasesMoved(e, q)
<1> DEFINE r == e.kind.request_id
<1>1. /\ e \in queue /\ IsNext(e) /\ Commit(e, q) /\ trace' = trace
      /\ Committable(q, tiers, fetches, ClockAt(e), r)
      /\ OthersMove(q, Pool, r)
  BY DEF Returns, IsNext
<1>2. Running /\ Running' /\ r \in Request
  BY <1>1, EventParts DEF Running
<1>3. waiting' = q.waiting
  BY <1>1 DEF Commit
<1>4. Delivered(e, q)
  <2>1. q.events \in Seq([time_ns : Nat, kind : fetches \cup GpuKind])
    BY <1>1 DEF Committable
  <2> QED
    BY <1>1, <2>1, CommittedQueue
<1>5. ClockAt(e) \in Nat
  BY <1>1, DeliveredOnTime
<1>6. \A t \in Stage : \A s : /\ WaitsIn(Pool, t, s) <=> Waits(t, s)
                              /\ ~WorksIn(Pool, t, s)
  BY <1>2, <1>5, PoolIsGood
<1>7. ASSUME NEW t \in Stage, NEW s \in Request, WaitsIn(q, t, s)
      PROVE  PhaseOf(s)' = WaitingPhase(t)
  <2>1. Waits(t, s)'
    BY <1>3, <1>7 DEF Waits, WaitsIn
  <2> QED
    BY <1>2, <2>1 DEF PhasesKnown
<1>8. ASSUME NEW t \in Stage, NEW s \in Request, WorksIn(q, t, s)
      PROVE  PhaseOf(s)' = t
  <2>1. PICK i \in DOMAIN q.events : /\ q.events[i].kind.request_id = s
                                     /\ q.events[i].kind.tag = Done(t)
    BY <1>8 DEF WorksIn
  <2>2. /\ NewEvent(q, i) \in queue'
        /\ NewEvent(q, i).kind = q.events[i].kind
    BY <1>4 DEF Delivered, NewEvent
  <2>3. PhaseOf(s)' = PhaseOfTag[Done(t)]
    BY <1>2, <2>1, <2>2 DEF PhasesKnown
  <2> QED
    BY <2>3, PhasesOfEvents
<1>9. PhaseOf(r) = PhaseOfTag[e.kind.tag]
  BY <1>1, <1>2 DEF PhasesKnown
<1>10. \A t \in Stage : IsIn(q, t, r) => PhaseOf(r)' \in {WaitingPhase(t), t}
  BY <1>2, <1>7, <1>8 DEF IsIn
<1>11. r \in DOMAIN results' => PhaseOf(r)' = "Done"
  BY <1>2 DEF PhasesKnown
<1> HIDE DEF r
<1>12. ASSUME NEW s \in Request, s # r
       PROVE  \/ PhaseOf(s)' = PhaseOf(s)
              \/ \E t \in Stage : PhaseOf(s) = WaitingPhase(t) /\ PhaseOf(s)' = t
  <2>1. CASE s \in DOMAIN results
    <3>1. s \in DOMAIN results'
      BY <2>1 DEF Returns
    <3> QED
      BY <1>2, <2>1, <3>1 DEF PhasesKnown
  <2>2. ASSUME NEW t \in Stage, Waits(t, s)
        PROVE  \/ PhaseOf(s)' = PhaseOf(s)
               \/ PhaseOf(s) = WaitingPhase(t) /\ PhaseOf(s)' = t
    <3>1. PhaseOf(s) = WaitingPhase(t)
      BY <1>2, <2>2 DEF PhasesKnown
    <3>2. WaitsIn(q, t, s) \/ WorksIn(q, t, s)
      BY <1>1, <1>6, <1>12, <2>2 DEF OthersMove
    <3> QED
      BY <1>7, <1>8, <3>1, <3>2
  <2>3. ASSUME NEW f \in queue, f.kind.request_id = s
        PROVE  PhaseOf(s)' = PhaseOf(s)
    <3>1. f # e
      BY <1>12, <2>3 DEF r
    <3>2. f \in queue'
      BY <1>4, <3>1 DEF Delivered
    <3>3. /\ PhaseOf(s) = PhaseOfTag[f.kind.tag]
          /\ PhaseOf(s)' = PhaseOfTag[f.kind.tag]
      BY <1>2, <2>3, <3>2 DEF PhasesKnown
    <3> QED
      BY <3>3
  <2> QED
    BY <1>2, <2>1, <2>2, <2>3 DEF PhasesKnown
<1> QED
  BY <1>9, <1>10, <1>11, <1>12 DEF PhasesMoved, r
=============================================================================
