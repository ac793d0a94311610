-------------------------- MODULE SimulatorProofs ---------------------------
(***************************************************************************)
(* The heap of numbered events is an agenda, for all times, kinds of       *)
(* events and callers.                                                     *)
(***************************************************************************)
EXTENDS MCSimulator, FiniteSetTheorems, SequenceTheorems, WellFoundedInduction, TLAPS

-----------------------------------------------------------------------------
(* Positions in the heap *)

\* The size of a set is the same for Agenda.
LEMMA SameCardinality == ASSUME NEW S PROVE Promised!Cardinality(S) = Cardinality(S)
BY DEF Promised!Cardinality, Cardinality

\* Of every non-empty set of numbers one is least.
LEMMA Least ==
    ASSUME NEW T \in SUBSET Nat, T # {}
    PROVE  \E x \in T : \A y \in T : x <= y
<1>1. PICK x \in T : \A y \in T : ~(<<y, x>> \in OpToRel(<, Nat))
  BY NatLessThanWellFounded, WFMin
<1>2. \A y \in T : ~(y < x)
  BY <1>1 DEF OpToRel
<1> QED
  BY <1>2

\* Q is a heap of events that have the numbers below n, each a number of its own.
Numbered(Q, n) ==
    /\ n \in Nat /\ IsFiniteSet(Q)
    /\ Q \subseteq [time_ns : Time, seq : 0 .. (n - 1), kind : Payload]
    /\ \A e, f \in Q : e.seq = f.seq => e = f

\* How many events of Q come before e.
Position(Q, e) == Cardinality({f \in Q : Before(f, e)})

ItemOf(e) == [time_ns |-> e.time_ns, kind |-> e.kind]

\* The items of Q in the order of the heap.
InOrder(Q) ==
    [i \in 1 .. Cardinality(Q) |-> ItemOf(CHOOSE e \in Q : Position(Q, e) = i - 1)]

LEMMA Numbers ==
    ASSUME NEW n, NEW Q, Numbered(Q, n)
    PROVE  /\ \A e \in Q : /\ e.time_ns \in Nat /\ e.time_ns \in Time
                           /\ e.seq \in Nat /\ e.seq < n /\ e.kind \in Payload
           /\ \A e \in Q : ItemOf(e) \in Item
           /\ \A e \in Q : ~Before(e, e)
           /\ \A e, f, g \in Q : Before(e, f) /\ Before(f, g) => Before(e, g)
           /\ \A e, f \in Q : e # f => Before(e, f) \/ Before(f, e)
<1>1. \A e \in Q : /\ e.time_ns \in Nat /\ e.time_ns \in Time
                   /\ e.seq \in Nat /\ e.seq < n /\ e.kind \in Payload
  <2> SUFFICES ASSUME NEW e \in Q
               PROVE  /\ e.time_ns \in Nat /\ e.time_ns \in Time
                      /\ e.seq \in Nat /\ e.seq < n /\ e.kind \in Payload
    OBVIOUS
  <2>1. e \in [time_ns : Time, seq : 0 .. (n - 1), kind : Payload] /\ n \in Nat
    BY DEF Numbered
  <2>2. e.time_ns \in Time /\ e.seq \in 0 .. (n - 1) /\ e.kind \in Payload
    BY <2>1
  <2>3. e.time_ns \in Nat
    BY <2>2, SimulatorAssumption
  <2>4. e.seq \in Nat /\ e.seq < n
    BY <2>1, <2>2
  <2> QED
    BY <2>2, <2>3, <2>4
<1>2. \A e \in Q : ItemOf(e) \in Item
  BY <1>1 DEF ItemOf, Item
<1>3. \A e \in Q : ~Before(e, e)
  BY <1>1 DEF Before
<1>4. \A e, f, g \in Q : Before(e, f) /\ Before(f, g) => Before(e, g)
  BY <1>1 DEF Before
<1>5. ASSUME NEW e \in Q, NEW f \in Q, e # f PROVE Before(e, f) \/ Before(f, e)
  <2>1. e.seq # f.seq
    BY <1>5 DEF Numbered
  <2> QED
    BY <1>1, <2>1 DEF Before
<1> QED
  BY <1>1, <1>2, <1>3, <1>4, <1>5

\* What comes before something that comes before f also comes before f, and so
\* does that.
LEMMA PositionIncreases ==
    ASSUME NEW n, NEW Q, Numbered(Q, n), NEW f \in Q
    PROVE  /\ Position(Q, f) \in 0 .. (Cardinality(Q) - 1)
           /\ Cardinality(Q) \in Nat
           /\ \A e \in Q : Before(e, f) => Position(Q, e) < Position(Q, f)
<1> DEFINE Below(e) == {g \in Q : Before(g, e)}
<1>1. IsFiniteSet(Q)
  BY DEF Numbered
<1>2. ASSUME NEW S \in SUBSET Q, NEW e \in S, NEW U \in SUBSET S, e \notin U
      PROVE  /\ Cardinality(U) \in Nat /\ Cardinality(S) \in Nat
             /\ Cardinality(U) < Cardinality(S)
  <2>1. IsFiniteSet(S)
    BY <1>1, FS_Subset
  <2>2. /\ IsFiniteSet(U)
        /\ Cardinality(U) <= Cardinality(S)
        /\ Cardinality(U) = Cardinality(S) => U = S
    BY <2>1, FS_Subset
  <2>3. Cardinality(U) \in Nat /\ Cardinality(S) \in Nat
    BY <2>1, <2>2, FS_CardinalityType
  <2>4. U # S
    BY <1>2
  <2> QED
    BY <2>2, <2>3, <2>4
<1>3. Below(f) \in SUBSET Q /\ f \notin Below(f)
  BY Numbers
<1>4. /\ Cardinality(Below(f)) \in Nat /\ Cardinality(Q) \in Nat
      /\ Cardinality(Below(f)) < Cardinality(Q)
  BY <1>2, <1>3
<1>5. ASSUME NEW e \in Q, Before(e, f)
      PROVE  Cardinality(Below(e)) < Cardinality(Below(f))
  <2>1. Below(e) \in SUBSET Below(f) /\ e \in Below(f) /\ e \notin Below(e)
    BY <1>5, Numbers
  <2> QED
    BY <1>2, <1>3, <2>1
<1> QED
  BY <1>4, <1>5 DEF Position

\* The positions are 0, 1, 2, ..., each taken by one event.
LEMMA PositionsTaken ==
    ASSUME NEW n, NEW Q, Numbered(Q, n)
    PROVE  /\ \A e, f \in Q : Position(Q, e) = Position(Q, f) => e = f
           /\ \A i \in 0 .. (Cardinality(Q) - 1) : \E e \in Q : Position(Q, e) = i
<1> DEFINE T == 0 .. (Cardinality(Q) - 1)
           pos == [e \in Q |-> Position(Q, e)]
<1>1. IsFiniteSet(Q) /\ Cardinality(Q) \in Nat
  BY FS_CardinalityType DEF Numbered
<1>2. ASSUME NEW e \in Q, NEW f \in Q, e # f PROVE Position(Q, e) # Position(Q, f)
  <2>1. Before(e, f) \/ Before(f, e)
    BY <1>2, Numbers
  <2>2. Position(Q, e) \in Int /\ Position(Q, f) \in Int
    BY PositionIncreases
  <2>3. Position(Q, e) < Position(Q, f) \/ Position(Q, f) < Position(Q, e)
    BY <2>1, PositionIncreases
  <2> QED
    BY <2>2, <2>3
<1>3. pos \in [Q -> T]
  BY PositionIncreases
<1>4. pos \in Injection(Q, T)
  BY <1>2, <1>3 DEF Injection, IsInjective
<1>5. IsFiniteSet(T) /\ Cardinality(T) = Cardinality(Q)
  <2>1. IsFiniteSet(T)
        /\ Cardinality(T) = IF 0 > Cardinality(Q) - 1 THEN 0
                            ELSE (Cardinality(Q) - 1) - 0 + 1
    BY <1>1, FS_Interval
  <2> QED
    BY <1>1, <2>1
<1>6. pos \in Surjection(Q, T)
  <2> HIDE DEF pos, T
  <2> QED
    BY <1>4, <1>5, FS_Injection
<1>7. ASSUME NEW i \in T PROVE \E e \in Q : Position(Q, e) = i
  <2>1. PICK e \in Q : pos[e] = i
    <3> HIDE DEF pos, T
    <3> QED
      BY <1>6 DEF Surjection
  <2> QED
    BY <2>1
<1> QED
  BY <1>2, <1>7

\* InOrder has each item at the position of its event, and nothing else has.
LEMMA InOrderIs ==
    ASSUME NEW n, NEW Q, Numbered(Q, n)
    PROVE  /\ InOrder(Q) \in Seq(Item) /\ Len(InOrder(Q)) = Cardinality(Q)
           /\ \A e \in Q : InOrder(Q)[Position(Q, e) + 1] = ItemOf(e)
<1> DEFINE At(i) == CHOOSE e \in Q : Position(Q, e) = i - 1
<1>1. Cardinality(Q) \in Nat
  BY FS_CardinalityType DEF Numbered
<1>2. ASSUME NEW i \in 1 .. Cardinality(Q)
      PROVE  At(i) \in Q /\ Position(Q, At(i)) = i - 1
  <2>1. i - 1 \in 0 .. (Cardinality(Q) - 1)
    BY <1>1
  <2> QED
    BY <2>1, PositionsTaken
<1>3. InOrder(Q) = [i \in 1 .. Cardinality(Q) |-> ItemOf(At(i))]
  BY DEF InOrder
<1> HIDE DEF At
<1>4. InOrder(Q) \in [1 .. Cardinality(Q) -> Item]
  BY <1>2, <1>3, Numbers
<1>5. InOrder(Q) \in Seq(Item) /\ Len(InOrder(Q)) = Cardinality(Q)
  BY <1>1, <1>4
<1>6. ASSUME NEW e \in Q PROVE InOrder(Q)[Position(Q, e) + 1] = ItemOf(e)
  <2> DEFINE i == Position(Q, e) + 1
  <2>1. i \in 1 .. Cardinality(Q) /\ i - 1 = Position(Q, e)
    BY <1>1, PositionIncreases
  <2>2. At(i) = e
    BY <1>2, <2>1, PositionsTaken
  <2> QED
    BY <1>3, <2>1, <2>2
<1> QED
  BY <1>5, <1>6

LEMMA InOrderOnly ==
    ASSUME NEW n, NEW Q, Numbered(Q, n), NEW s \in Seq(Item), Len(s) = Cardinality(Q),
           \A e \in Q : s[Position(Q, e) + 1] = ItemOf(e)
    PROVE  s = InOrder(Q)
<1>1. Cardinality(Q) \in Nat
  BY FS_CardinalityType DEF Numbered
<1>2. ASSUME NEW i \in 1 .. Cardinality(Q) PROVE s[i] = InOrder(Q)[i]
  <2>1. i - 1 \in 0 .. (Cardinality(Q) - 1)
    BY <1>1
  <2>2. PICK e \in Q : Position(Q, e) = i - 1
    BY <2>1, PositionsTaken
  <2>3. Position(Q, e) + 1 = i
    BY <2>2
  <2> QED
    BY <2>3, InOrderIs
<1>3. InOrder(Q) \in Seq(Item) /\ Len(InOrder(Q)) = Cardinality(Q)
  BY InOrderIs
<1> QED
  BY <1>1, <1>2, <1>3

-----------------------------------------------------------------------------
(* What schedule and pop do to the order *)

\* t is s with x in between, behind k others.
Inserts(S, s, k, x, t) ==
    /\ t \in Seq(S) /\ Len(t) = Len(s) + 1
    /\ t[k + 1] = x
    /\ \A i \in 1 .. k : t[i] = s[i]
    /\ \A i \in (k + 1) .. Len(s) : t[i + 1] = s[i]

LEMMA InsertIs ==
    ASSUME NEW S, NEW s \in Seq(S), NEW k \in 0 .. Len(s), NEW p, p = k + 1,
           NEW x \in S, NEW t, t = Promised!InsertAt(s, p, x)
    PROVE  Inserts(S, s, k, x, t)
<1> DEFINE a == SubSeq(s, 1, k)
           b == SubSeq(s, k + 1, Len(s))
           c == a \o <<x>>
<1>1. t = c \o b
  <2>1. p - 1 = k
    OBVIOUS
  <2> QED
    BY <2>1 DEF Promised!InsertAt
<1>2. Len(s) \in Nat /\ k \in Nat /\ k <= Len(s)
  OBVIOUS
<1>3. /\ a \in Seq(S) /\ Len(a) = k /\ \A i \in 1 .. k : a[i] = s[i]
  BY <1>2
<1>4. /\ b \in Seq(S) /\ Len(b) = Len(s) - k
      /\ \A i \in 1 .. (Len(s) - k) : b[i] = s[k + i]
  BY <1>2
<1> HIDE DEF a, b
<1>5. /\ c \in Seq(S) /\ Len(c) = k + 1 /\ c[k + 1] = x
       /\ \A i \in 1 .. k : c[i] = a[i]
  BY <1>2, <1>3
<1> HIDE DEF c
<1>6. t \in Seq(S) /\ Len(t) = Len(s) + 1
  <2>1. t \in Seq(S) /\ Len(t) = Len(c) + Len(b)
    BY <1>1, <1>4, <1>5, ConcatProperties
  <2> QED
    BY <1>2, <1>4, <1>5, <2>1
<1>7. \A i \in 1 .. (k + 1) : t[i] = c[i]
  BY <1>1, <1>2, <1>4, <1>5
<1>8. ASSUME NEW i \in 1 .. (Len(s) - k) PROVE t[k + 1 + i] = b[i]
  <2> DEFINE j == k + 1 + i
  <2>1. j \in 1 .. (Len(c) + Len(b)) /\ ~(j <= Len(c)) /\ j - Len(c) = i
    BY <1>2, <1>4, <1>5
  <2> HIDE DEF j
  <2>2. (c \o b)[j] = IF j <= Len(c) THEN c[j] ELSE b[j - Len(c)]
    BY <1>4, <1>5, <2>1, ConcatProperties
  <2>3. t[j] = b[i]
    BY <1>1, <2>1, <2>2
  <2> QED
    BY <2>3 DEF j
<1>9. /\ t \in Seq(S) /\ Len(t) = Len(s) + 1
      /\ t[k + 1] = x
      /\ \A i \in 1 .. k : t[i] = a[i]
      /\ \A i \in 1 .. (Len(s) - k) : t[k + 1 + i] = b[i]
  BY <1>2, <1>5, <1>6, <1>7, <1>8
<1>10. ASSUME NEW i \in (k + 1) .. Len(s) PROVE t[i + 1] = s[i]
  <2>1. i - k \in 1 .. (Len(s) - k) /\ k + 1 + (i - k) = i + 1 /\ k + (i - k) = i
    BY <1>2
  <2>2. t[k + 1 + (i - k)] = b[i - k] /\ b[i - k] = s[k + (i - k)]
    BY <1>4, <1>9, <2>1
  <2> QED
    BY <2>1, <2>2
<1> QED
  BY <1>3, <1>9, <1>10 DEF Inserts

\* A new event goes behind everything that is due no later than it.
LEMMA GoesBehind ==
    ASSUME NEW n, NEW Q, Numbered(Q, n), NEW x \in Item
    PROVE  Promised!Behind(InOrder(Q), x)
             = Cardinality({f \in Q : f.time_ns <= x.time_ns})
<1> DEFINE E == {f \in Q : f.time_ns <= x.time_ns}
           I == {i \in DOMAIN InOrder(Q) : InOrder(Q)[i].time_ns <= x.time_ns}
           at == [f \in E |-> Position(Q, f) + 1]
<1>1. /\ IsFiniteSet(E) /\ Cardinality(Q) \in Nat
      /\ DOMAIN InOrder(Q) = 1 .. Cardinality(Q)
  BY FS_Subset, FS_CardinalityType DEF Numbered, InOrder
<1>2. ASSUME NEW f \in Q
      PROVE  /\ Position(Q, f) + 1 \in DOMAIN InOrder(Q)
             /\ InOrder(Q)[Position(Q, f) + 1].time_ns = f.time_ns
  <2>1. InOrder(Q)[Position(Q, f) + 1] = ItemOf(f)
    BY InOrderIs
  <2>2. Position(Q, f) + 1 \in 1 .. Cardinality(Q)
    BY <1>1, PositionIncreases
  <2> QED
    BY <1>1, <2>1, <2>2 DEF ItemOf
<1>3. at \in [E -> I]
  BY <1>2
<1>4. ASSUME NEW f \in E, NEW g \in E, at[f] = at[g] PROVE f = g
  <2>1. Position(Q, f) \in Int /\ Position(Q, g) \in Int
    BY PositionIncreases
  <2>2. Position(Q, f) = Position(Q, g)
    BY <1>4, <2>1
  <2> QED
    BY <2>2, PositionsTaken
<1>5. ASSUME NEW i \in I PROVE \E f \in E : at[f] = i
  <2>1. i \in 1 .. Cardinality(Q) /\ i - 1 \in 0 .. (Cardinality(Q) - 1)
    BY <1>1
  <2>2. PICK f \in Q : Position(Q, f) = i - 1
    BY <2>1, PositionsTaken
  <2>3. Position(Q, f) + 1 = i
    BY <2>1, <2>2
  <2>4. f \in E /\ at[f] = i
    BY <1>2, <2>3
  <2> QED
    BY <2>4
<1> HIDE DEF E, I, at
<1>6. at \in Bijection(E, I)
  BY <1>3, <1>4, <1>5 DEF Bijection, Injection, Surjection, IsInjective
<1>7. Cardinality(I) = Cardinality(E)
  BY <1>1, <1>6, FS_Bijection DEF ExistsBijection
<1>8. Promised!Behind(InOrder(Q), x) = Cardinality(I)
  BY SameCardinality DEF Promised!Behind, I
<1> QED
  BY <1>7, <1>8 DEF E

LEMMA NumberedMore ==
    ASSUME NEW n, NEW Q, Numbered(Q, n), NEW x \in Item, NEW e,
           e = [time_ns |-> x.time_ns, seq |-> n, kind |-> x.kind]
    PROVE  /\ Numbered(Q \cup {e}, n + 1) /\ e \notin Q
           /\ e.time_ns = x.time_ns /\ e.seq = n /\ ItemOf(e) = x
<1>1. /\ e.time_ns = x.time_ns /\ e.seq = n /\ e.kind = x.kind
      /\ x.time_ns \in Time /\ x.kind \in Payload /\ n \in Nat
      /\ x = [time_ns |-> x.time_ns, kind |-> x.kind]
  BY DEF Item, Numbered
<1>2. \A f \in Q : f.seq \in Nat /\ f.seq < n
  BY Numbers
<1>3. e \notin Q
  BY <1>1, <1>2
<1>4. IsFiniteSet(Q \cup {e})
  BY FS_AddElement DEF Numbered
<1>5. n \in 0 .. ((n + 1) - 1)
  BY <1>1
<1>6. e \in [time_ns : Time, seq : 0 .. ((n + 1) - 1), kind : Payload]
  BY <1>1, <1>5
<1>7. 0 .. (n - 1) \subseteq 0 .. ((n + 1) - 1)
  BY <1>1
<1>8. Q \subseteq [time_ns : Time, seq : 0 .. ((n + 1) - 1), kind : Payload]
  BY <1>7 DEF Numbered
<1>9. \A f, g \in Q \cup {e} : f.seq = g.seq => f = g
  BY <1>1, <1>2 DEF Numbered
<1> QED
  BY <1>1, <1>3, <1>4, <1>6, <1>8, <1>9 DEF Numbered, ItemOf

\* schedule enters an item in the agenda.
LEMMA ScheduleEnters ==
    ASSUME NEW n, NEW Q, Numbered(Q, n), NEW x \in Item, NEW e,
           e = [time_ns |-> x.time_ns, seq |-> n, kind |-> x.kind]
    PROVE  Promised!Entered(InOrder(Q), x) = InOrder(Q \cup {e})
<1> DEFINE R == Q \cup {e}
           k == Position(R, e)
           s == InOrder(Q)
           p == k + 1
           t == Promised!InsertAt(s, p, x)
<1>1. /\ Numbered(R, n + 1) /\ e \notin Q
      /\ e.time_ns = x.time_ns /\ e.seq = n /\ ItemOf(e) = x
  BY NumberedMore
<1>2. /\ IsFiniteSet(Q) /\ Cardinality(Q) \in Nat
      /\ Cardinality(R) = Cardinality(Q) + 1
  BY <1>1, FS_AddElement, FS_CardinalityType DEF Numbered
<1>3. e \in R /\ Q \subseteq R
  OBVIOUS
<1>4. \A f \in Q : Before(f, e) <=> f.time_ns <= x.time_ns
  <2>1. x.time_ns \in Nat
    BY SimulatorAssumption DEF Item
  <2> QED
    BY <1>1, <2>1, Numbers DEF Before
<1>5. ~Before(e, e)
  BY <1>1, <1>3, Numbers
<1>6. k = Cardinality({f \in Q : f.time_ns <= x.time_ns})
  <2>1. {f \in R : Before(f, e)} = {f \in Q : f.time_ns <= x.time_ns}
    BY <1>4, <1>5
  <2> QED
    BY <2>1 DEF Position
<1>7. k \in 0 .. Cardinality(Q)
  <2>1. k \in 0 .. (Cardinality(R) - 1)
    BY <1>1, <1>3, PositionIncreases
  <2> QED
    BY <1>2, <2>1
<1>8. s \in Seq(Item) /\ Len(s) = Cardinality(Q)
      /\ \A f \in Q : s[Position(Q, f) + 1] = ItemOf(f)
  BY InOrderIs
<1>9. Promised!Entered(s, x) = t
  BY <1>6, GoesBehind DEF Promised!Entered
<1> HIDE DEF s, R
<1>10. /\ t \in Seq(Item) /\ Len(t) = Len(s) + 1 /\ t[k + 1] = x
       /\ \A i \in 1 .. k : t[i] = s[i]
       /\ \A i \in (k + 1) .. Len(s) : t[i + 1] = s[i]
  <2> HIDE DEF k
  <2>1. k \in 0 .. Len(s) /\ s \in Seq(Item) /\ p = k + 1
    BY <1>7, <1>8
  <2> HIDE DEF p
  <2>2. t = Promised!InsertAt(s, p, x)
    OBVIOUS
  <2> HIDE DEF t
  <2>3. Inserts(Item, s, k, x, t)
    BY <2>1, <2>2, InsertIs
  <2> QED
    BY <2>3 DEF Inserts
<1> HIDE DEF t
<1>11. ASSUME NEW f \in Q PROVE t[Position(R, f) + 1] = ItemOf(f)
  <2>1. /\ Position(Q, f) \in 0 .. (Cardinality(Q) - 1)
        /\ Position(R, f) \in 0 .. (Cardinality(R) - 1)
        /\ f \in R
    BY <1>1, <1>3, PositionIncreases
  <2>2. IsFiniteSet({g \in Q : Before(g, f)}) /\ e \notin {g \in Q : Before(g, f)}
    BY <1>1, <1>2, FS_Subset
  <2>3. CASE Before(f, e)
    <3>1. ~Before(e, f)
      BY <1>1, <1>3, <1>5, <2>1, <2>3, Numbers
    <3>2. {g \in R : Before(g, f)} = {g \in Q : Before(g, f)}
      BY <3>1 DEF R
    <3>3. Position(R, f) = Position(Q, f)
      BY <3>2 DEF Position
    <3>4. Position(R, f) < k
      BY <1>1, <1>3, <2>1, <2>3, PositionIncreases
    <3>5. Position(Q, f) + 1 \in 1 .. k
      BY <1>2, <1>7, <2>1, <3>3, <3>4
    <3> QED
      BY <1>8, <1>10, <3>3, <3>5
  <2>4. CASE ~Before(f, e)
    <3>1. Before(e, f)
      BY <1>1, <1>3, <2>1, <2>4, Numbers
    <3>2. {g \in R : Before(g, f)} = {g \in Q : Before(g, f)} \cup {e}
      BY <3>1 DEF R
    <3>3. Cardinality({g \in Q : Before(g, f)} \cup {e})
            = Cardinality({g \in Q : Before(g, f)}) + 1
      BY <2>2, FS_AddElement
    <3>4. Position(R, f) = Position(Q, f) + 1
      BY <3>2, <3>3 DEF Position
    <3>5. k < Position(R, f)
      BY <1>1, <1>3, <2>1, <3>1, PositionIncreases
    <3>6. Position(Q, f) + 1 \in (k + 1) .. Len(s)
      BY <1>2, <1>7, <1>8, <2>1, <3>4, <3>5
    <3>7. t[(Position(Q, f) + 1) + 1] = s[Position(Q, f) + 1]
      BY <1>10, <3>6
    <3> QED
      BY <1>8, <3>4, <3>7
  <2> QED
    BY <2>3, <2>4
<1>12. \A f \in R : t[Position(R, f) + 1] = ItemOf(f)
  BY <1>1, <1>10, <1>11 DEF R
<1>13. t = InOrder(R)
  BY <1>1, <1>2, <1>8, <1>10, <1>12, InOrderOnly
<1> QED
  BY <1>9, <1>13 DEF R, s

\* pop takes the first item of the agenda.
LEMMA PopTakesFirst ==
    ASSUME NEW n, NEW Q, Numbered(Q, n), NEW e \in Q,
           \A f \in Q \ {e} : Before(e, f)
    PROVE  /\ Numbered(Q \ {e}, n)
           /\ InOrder(Q) # <<>> /\ Head(InOrder(Q)) = ItemOf(e)
           /\ Tail(InOrder(Q)) = InOrder(Q \ {e})
<1> DEFINE R == Q \ {e}
           s == InOrder(Q)
<1>1. Numbered(R, n)
  BY FS_Subset DEF Numbered
<1>2. /\ IsFiniteSet(Q) /\ Cardinality(Q) \in Nat /\ Cardinality(R) \in Nat
      /\ Cardinality(Q) = Cardinality(R) + 1
  <2>1. IsFiniteSet(R) /\ Cardinality(R) = Cardinality(Q) - 1 /\ IsFiniteSet(Q)
    BY FS_RemoveElement DEF Numbered
  <2> QED
    BY <2>1, FS_CardinalityType
<1>3. s \in Seq(Item) /\ Len(s) = Cardinality(Q)
      /\ \A f \in Q : s[Position(Q, f) + 1] = ItemOf(f)
  BY InOrderIs
<1>4. Position(Q, e) = 0
  <2>1. {f \in Q : Before(f, e)} = {}
    <3>1. ASSUME NEW f \in Q, Before(f, e) PROVE FALSE
      <4>1. f # e
        BY <3>1, Numbers
      <4>2. Before(e, f) /\ e \in Q
        BY <4>1
      <4>3. Before(e, e)
        BY <3>1, <4>2, Numbers
      <4> QED
        BY <4>3, Numbers
    <3> QED
      BY <3>1
  <2> QED
    BY <2>1, FS_EmptySet DEF Position
<1>5. ASSUME NEW f \in R PROVE Position(Q, f) = Position(R, f) + 1
  <2>1. IsFiniteSet({g \in R : Before(g, f)}) /\ e \notin {g \in R : Before(g, f)}
    BY <1>1, FS_Subset DEF Numbered
  <2>2. {g \in Q : Before(g, f)} = {g \in R : Before(g, f)} \cup {e}
    OBVIOUS
  <2>3. Cardinality({g \in R : Before(g, f)} \cup {e})
          = Cardinality({g \in R : Before(g, f)}) + 1
    BY <2>1, FS_AddElement
  <2> QED
    BY <2>2, <2>3 DEF Position
<1> HIDE DEF s
<1>6. s # <<>> /\ Head(s) = ItemOf(e)
  <2>1. s[1] = ItemOf(e)
    BY <1>3, <1>4
  <2> QED
    BY <1>2, <1>3, <2>1
<1>7. Tail(s) \in Seq(Item) /\ Len(Tail(s)) = Cardinality(R)
      /\ \A i \in 1 .. Cardinality(R) : Tail(s)[i] = s[i + 1]
  <2>1. Tail(s) \in Seq(Item) /\ Len(Tail(s)) = Len(s) - 1
        /\ \A i \in 1 .. Len(Tail(s)) : Tail(s)[i] = s[i + 1]
    BY <1>3, <1>6, HeadTailProperties
  <2>2. Len(s) - 1 = Cardinality(R)
    BY <1>2, <1>3
  <2> QED
    BY <2>1, <2>2
<1>8. ASSUME NEW f \in R PROVE Tail(s)[Position(R, f) + 1] = ItemOf(f)
  <2>1. Position(R, f) \in 0 .. (Cardinality(R) - 1) /\ f \in Q
    BY <1>1, PositionIncreases
  <2>2. Position(R, f) + 1 \in 1 .. Cardinality(R)
    BY <1>2, <2>1
  <2>3. Tail(s)[Position(R, f) + 1] = s[(Position(R, f) + 1) + 1]
    BY <1>7, <2>2
  <2> QED
    BY <1>3, <1>5, <2>1, <2>3
<1> HIDE DEF R
<1>9. Tail(s) = InOrder(R)
  BY <1>1, <1>7, <1>8, InOrderOnly
<1> QED
  BY <1>1, <1>6, <1>9 DEF R, s

\* Scheduling one event after the other enters their items.
LEMMA BatchEnters ==
    ASSUME NEW n, NEW Q, Numbered(Q, n), NEW m \in Nat, NEW evs \in [1 .. m -> Item]
    PROVE  /\ Numbered(Q \cup Batch(evs, n), n + m)
           /\ Promised!AllEntered(InOrder(Q), evs) = InOrder(Q \cup Batch(evs, n))
<1> DEFINE Ev(i) == [time_ns |-> evs[i].time_ns, seq |-> n + (i - 1),
                     kind |-> evs[i].kind]
           Upto(i) == Q \cup {Ev(j) : j \in 1 .. i}
           Step1(f, i) == IF i = 0 THEN InOrder(Q) ELSE Promised!Entered(f[i - 1], evs[i])
           G == [i \in 0 .. m |-> InOrder(Upto(i))]
           F == CHOOSE f : f = [i \in 0 .. m |-> Step1(f, i)]
<1>1. n \in Nat /\ Len(evs) = m
  BY DEF Numbered
<1>2. Upto(0) = Q
  OBVIOUS
<1>3. ASSUME NEW i \in 1 .. m
      PROVE  Upto(i) = Upto(i - 1) \cup {Ev(i)}
  <2>1. 1 .. i = (1 .. (i - 1)) \cup {i}
    OBVIOUS
  <2> QED
    BY <2>1
<1>4. Upto(m) = Q \cup Batch(evs, n)
  <2>1. DOMAIN evs = 1 .. m
    OBVIOUS
  <2>2. \A i \in 1 .. m : n + (i - 1) = n + i - 1
    BY <1>1
  <2> QED
    BY <2>1, <2>2 DEF Batch
<1>5. ASSUME NEW i \in 1 .. m, Numbered(Upto(i - 1), n + (i - 1))
      PROVE  /\ Numbered(Upto(i), n + i)
             /\ InOrder(Upto(i)) = Promised!Entered(InOrder(Upto(i - 1)), evs[i])
  <2> DEFINE e == Ev(i)
             x == evs[i]
             k == n + (i - 1)
             R == Upto(i - 1)
  <2>1. x \in Item /\ k + 1 = n + i /\ Upto(i) = R \cup {e} /\ Numbered(R, k)
    BY <1>1, <1>3, <1>5
  <2>2. e = [time_ns |-> x.time_ns, seq |-> k, kind |-> x.kind]
    OBVIOUS
  <2> HIDE DEF e, x, k, R
  <2>3. Numbered(R \cup {e}, k + 1)
    BY <2>1, <2>2, NumberedMore
  <2>4. Promised!Entered(InOrder(R), x) = InOrder(R \cup {e})
    BY <2>1, <2>2, ScheduleEnters
  <2>5. Numbered(Upto(i), n + i)
    BY ONLY <2>1, <2>3
  <2>6. InOrder(Upto(i)) = Promised!Entered(InOrder(R), x)
    BY ONLY <2>1, <2>4
  <2> QED
    BY <2>5, <2>6 DEF R, x
<1> HIDE DEF Upto, Ev
<1>6. \A i \in 0 .. m : Numbered(Upto(i), n + i)
  <2> DEFINE T == {i \in 0 .. m : ~Numbered(Upto(i), n + i)}
  <2> SUFFICES ASSUME T # {} PROVE FALSE
    OBVIOUS
  <2>1. T \in SUBSET Nat
    OBVIOUS
  <2>2. PICK i \in T : \A j \in T : i <= j
    <3> HIDE DEF T
    <3> QED
      BY <2>1, Least
  <2>3. i # 0
    BY <1>1, <1>2
  <2>4. i \in 1 .. m /\ i - 1 \in 0 .. m /\ ~(i <= i - 1)
    BY <2>3
  <2>5. Numbered(Upto(i - 1), n + (i - 1))
    BY <2>2, <2>4
  <2> QED
    BY <1>5, <2>4, <2>5
<1>7. G = [i \in 0 .. m |-> Step1(G, i)]
  <2>1. ASSUME NEW i \in 0 .. m PROVE G[i] = Step1(G, i)
    <3>1. CASE i = 0
      BY <1>2, <3>1
    <3>2. CASE i # 0
      <4>1. i \in 1 .. m /\ i - 1 \in 0 .. m
        BY <3>2
      <4>2. G[i] = InOrder(Upto(i)) /\ G[i - 1] = InOrder(Upto(i - 1))
        BY <4>1
      <4> QED
        BY <1>5, <1>6, <3>2, <4>1, <4>2
    <3> QED
      BY <3>1, <3>2
  <2> QED
    BY <2>1
<1> HIDE DEF G
<1>8. F = [i \in 0 .. m |-> Step1(F, i)]
  BY <1>7
<1> HIDE DEF F
<1>9. \A i \in 0 .. m : F[i] = G[i]
  <2> DEFINE T == {i \in 0 .. m : F[i] # G[i]}
  <2> SUFFICES ASSUME T # {} PROVE FALSE
    OBVIOUS
  <2>1. T \in SUBSET Nat
    OBVIOUS
  <2>2. PICK i \in T : \A j \in T : i <= j
    <3> HIDE DEF T
    <3> QED
      BY <2>1, Least
  <2>3. F[i] = Step1(F, i) /\ G[i] = Step1(G, i)
    BY <1>7, <1>8
  <2>4. i # 0
    BY <2>3
  <2>5. i - 1 \in 0 .. m /\ ~(i <= i - 1)
    BY <2>4
  <2>6. F[i - 1] = G[i - 1]
    BY <2>2, <2>5
  <2> QED
    BY <2>3, <2>4, <2>6
<1>10. Promised!AllEntered(InOrder(Q), evs) = F[m]
  BY <1>1 DEF Promised!AllEntered, F
<1>11. Numbered(Upto(m), n + m) /\ F[m] = InOrder(Upto(m))
  <2>1. m \in 0 .. m
    OBVIOUS
  <2> QED
    BY <1>6, <1>9, <2>1 DEF G
<1> QED
  BY ONLY <1>4, <1>10, <1>11

-----------------------------------------------------------------------------
(* The refinement *)

HeapInv == Numbered(queue, next_seq)

LEMMA HeapBegun == NewSimulator => HeapInv /\ Promised!Init
<1> SUFFICES ASSUME NewSimulator PROVE HeapInv /\ Promised!Init
  OBVIOUS
<1>1. HeapInv
  BY FS_EmptySet DEF NewSimulator, HeapInv, Numbered
<1>2. InHeapOrder = InOrder(queue)
  BY DEF InHeapOrder, InOrder, Position, ItemOf
<1>3. Cardinality(queue) = 0
  BY FS_EmptySet DEF NewSimulator
<1>4. InOrder(queue) \in Seq(Item) /\ Len(InOrder(queue)) = 0
  BY <1>1, <1>3, InOrderIs DEF HeapInv
<1>5. InHeapOrder = <<>>
  BY <1>2, <1>4
<1> QED
  BY <1>1, <1>5 DEF NewSimulator, Promised!Init

LEMMA HeapOrder == InHeapOrder = InOrder(queue) /\ InHeapOrder' = InOrder(queue')
BY DEF InHeapOrder, InOrder, Position, ItemOf

LEMMA ScheduleImplements ==
    ASSUME HeapInv, NEW t \in Time, NEW kind \in Payload, MCSchedule(t, kind)
    PROVE  HeapInv' /\ \E x \in Promised!Item : Promised!Enter(x)
<1> DEFINE x == [time_ns |-> t, kind |-> kind]
           e == [time_ns |-> x.time_ns, seq |-> next_seq, kind |-> x.kind]
<1>1. x \in Item /\ x \in Promised!Item /\ next_seq \in Nat
  BY DEF Item, Promised!Item, HeapInv, Numbered
<1>2. Batch(<<x>>, next_seq) = {e}
  BY <1>1 DEF Batch
<1>3. queue' = queue \cup {e} /\ next_seq' = next_seq + 1 /\ now_ns' = now_ns
  BY <1>2 DEF MCSchedule, Schedule
<1> HIDE DEF x
<1>4. Numbered(queue \cup {e}, next_seq + 1)
      /\ Promised!Entered(InOrder(queue), x) = InOrder(queue \cup {e})
  <2> DEFINE d == e
  <2>1. d = [time_ns |-> x.time_ns, seq |-> next_seq, kind |-> x.kind]
        /\ Numbered(queue, next_seq)
    BY DEF HeapInv
  <2> HIDE DEF d
  <2>2. Numbered(queue \cup {d}, next_seq + 1)
    BY <1>1, <2>1, NumberedMore
  <2>3. Promised!Entered(InOrder(queue), x) = InOrder(queue \cup {d})
    BY <1>1, <2>1, ScheduleEnters
  <2> QED
    BY <2>2, <2>3 DEF d
<1>5. HeapInv'
  BY <1>3, <1>4 DEF HeapInv
<1>6. Promised!Enter(x)
  BY <1>3, <1>4, HeapOrder DEF Promised!Enter
<1> QED
  BY <1>1, <1>5, <1>6

LEMMA StepImplements ==
    ASSUME HeapInv, NEW e \in queue, NEW n \in 0 .. MaxHandler,
           NEW evs \in [1 .. n -> Item], MCStep(e, evs)
    PROVE  HeapInv' /\ Promised!Deliver(evs)
<1> DEFINE Q == queue \ {e}
<1>1. /\ \A f \in queue \ {e} : Before(e, f)
      /\ now_ns' = ClockAt(e)
      /\ queue' = Q \cup Batch(evs, next_seq)
      /\ next_seq' = next_seq + Len(evs)
  BY DEF MCStep, StepAndSchedule, IsNext
<1>2. /\ Numbered(Q, next_seq)
      /\ InOrder(queue) # <<>> /\ Head(InOrder(queue)) = ItemOf(e)
      /\ Tail(InOrder(queue)) = InOrder(Q)
  BY <1>1, PopTakesFirst DEF HeapInv
<1>3. n \in Nat /\ Len(evs) = n
  OBVIOUS
<1> HIDE DEF Q
<1>4. /\ Numbered(Q \cup Batch(evs, next_seq), next_seq + n)
      /\ Promised!AllEntered(InOrder(Q), evs) = InOrder(Q \cup Batch(evs, next_seq))
  BY <1>2, <1>3, BatchEnters
<1>5. HeapInv'
  BY <1>1, <1>3, <1>4 DEF HeapInv
<1>6. Head(InOrder(queue)).time_ns = e.time_ns
  BY <1>2 DEF ItemOf
<1>7. Promised!Deliver(evs)
  BY <1>1, <1>2, <1>4, <1>6, HeapOrder DEF Promised!Deliver, ClockAt
<1> QED
  BY <1>5, <1>7

LEMMA HeapImplements == HeapInv /\ [MCNext]_simVars => HeapInv' /\ [Promised!Next]_(Promised!agVars)
<1> SUFFICES ASSUME HeapInv, [MCNext]_simVars
             PROVE  HeapInv' /\ [Promised!Next]_(Promised!agVars)
  OBVIOUS
<1>1. ASSUME NEW t \in Time, NEW kind \in Payload, MCSchedule(t, kind)
      PROVE  HeapInv' /\ Promised!Next
  BY <1>1, ScheduleImplements DEF Promised!Next
<1>2. ASSUME NEW e \in queue, NEW n \in 0 .. MaxHandler, NEW evs \in [1 .. n -> Item],
             MCStep(e, evs)
      PROVE  HeapInv' /\ Promised!Next
  <2>1. HeapInv' /\ Promised!Deliver(evs)
    BY <1>2, StepImplements
  <2>2. Promised!Item = Item
    BY DEF Item, Promised!Item
  <2> QED
    BY <2>1, <2>2 DEF Promised!Next
<1>3. CASE UNCHANGED simVars
  <2>1. queue' = queue /\ next_seq' = next_seq /\ now_ns' = now_ns
    BY <1>3 DEF simVars
  <2>2. HeapInv'
    BY <2>1 DEF HeapInv
  <2>3. InHeapOrder' = InHeapOrder
    BY <2>1, HeapOrder
  <2> QED
    BY <2>1, <2>2, <2>3 DEF Promised!agVars
<1> QED
  BY <1>1, <1>2, <1>3 DEF MCNext

\* For every sequence of calls of schedule and step, and whatever the handlers
\* schedule, the heap of numbered events delivers what an agenda would: in the
\* order of time, at equal times in the order of the calls of schedule, each
\* event once; and the clock never runs backwards.
THEOREM SimulatorImplementsAgenda == MCSpec => ImplementsAgenda
BY HeapBegun, HeapImplements, PTL DEF MCSpec, ImplementsAgenda, Promised!Spec
=============================================================================
