-------------------------- MODULE CacheStateProofs --------------------------
(***************************************************************************)
(* The cache's book-keeping is right for every set of sessions, prefixes,  *)
(* places and object sizes.                                                *)
(***************************************************************************)
EXTENDS CacheState, FiniteSetTheorems, TLAPS

-----------------------------------------------------------------------------
(* Counting the bytes of a set of objects *)

Sized(objects, K) == \A k \in K : objects[k].bytes \in Nat

LEMMA SlotsOfOne ==
    ASSUME NEW k, NEW n \in Nat
    PROVE  /\ IsFiniteSet({k} \X (1 .. n))
           /\ Cardinality({k} \X (1 .. n)) = n
<1>1. IsFiniteSet(1 .. n) /\ Cardinality(1 .. n) = n
  BY FS_Interval
<1>2. IsFiniteSet({k}) /\ Cardinality({k}) = 1
  BY FS_Singleton
<1>3. /\ IsFiniteSet({k} \X (1 .. n))
      /\ Cardinality({k} \X (1 .. n)) = 1 * n
  BY <1>1, <1>2, FS_Product
<1> QED
  BY <1>3

LEMMA SlotsFinite ==
    ASSUME NEW objects, NEW K, IsFiniteSet(K), Sized(objects, K)
    PROVE  IsFiniteSet(Slots(objects, K))
<1> DEFINE T == {{k} \X (1 .. objects[k].bytes) : k \in K}
           f == [k \in K |-> {k} \X (1 .. objects[k].bytes)]
<1>1. f \in Surjection(K, T)
  BY DEF Surjection
<1>2. IsFiniteSet(T)
  BY <1>1, FS_Surjection
<1>3. ASSUME NEW t \in T PROVE IsFiniteSet(t)
  <2>1. PICK k \in K : t = {k} \X (1 .. objects[k].bytes)
    OBVIOUS
  <2> QED
    BY <2>1, SlotsOfOne DEF Sized
<1> QED
  BY <1>2, <1>3, FS_UNION DEF Slots

LEMMA SlotsDisjoint ==
    ASSUME NEW objects, NEW J, NEW K, J \cap K = {}
    PROVE  /\ Slots(objects, J \cup K)
                = Slots(objects, J) \cup Slots(objects, K)
           /\ Slots(objects, J) \cap Slots(objects, K) = {}
  BY DEF Slots

LEMMA BytesAdd ==
    ASSUME NEW c, NEW J, NEW K, IsFiniteSet(J), IsFiniteSet(K),
           Sized(c.objects, J), Sized(c.objects, K), J \cap K = {}
    PROVE  /\ Bytes(c, J) \in Nat
           /\ Bytes(c, K) \in Nat
           /\ Bytes(c, J \cup K) = Bytes(c, J) + Bytes(c, K)
<1> DEFINE A == Slots(c.objects, J)
           B == Slots(c.objects, K)
<1>1. IsFiniteSet(A) /\ IsFiniteSet(B)
  BY SlotsFinite
<1>2. Cardinality(A) \in Nat /\ Cardinality(B) \in Nat
  BY <1>1, FS_CardinalityType
<1>3. Slots(c.objects, J \cup K) = A \cup B /\ A \cap B = {}
  BY SlotsDisjoint
<1>4. Cardinality(A \cap B) = 0
  BY <1>3, FS_EmptySet
<1>5. Cardinality(A \cup B)
        = Cardinality(A) + Cardinality(B) - Cardinality(A \cap B)
  BY <1>1, FS_Union
<1>6. Cardinality(A \cup B) = Cardinality(A) + Cardinality(B)
  <2> HIDE DEF A, B
  <2> QED
    BY <1>2, <1>4, <1>5
<1>7. Bytes(c, J \cup K) = Cardinality(A \cup B)
  BY <1>3, Zenon DEF Bytes
<1>8. Bytes(c, J) = Cardinality(A) /\ Bytes(c, K) = Cardinality(B)
  BY DEF Bytes
<1> QED
  BY <1>2, <1>6, <1>7, <1>8, Zenon

LEMMA BytesOfOne ==
    ASSUME NEW c, NEW k, c.objects[k].bytes \in Nat
    PROVE  Bytes(c, {k}) = c.objects[k].bytes
<1>1. Slots(c.objects, {k}) = {k} \X (1 .. c.objects[k].bytes)
  BY DEF Slots
<1> QED
  BY <1>1, SlotsOfOne DEF Bytes

LEMMA BytesOfNone == ASSUME NEW c PROVE Bytes(c, {}) = 0
<1>1. Slots(c.objects, {}) = {}
  BY DEF Slots
<1> QED
  BY <1>1, FS_EmptySet DEF Bytes

\* Two caches in which the objects K have the same sizes hold the same bytes.
LEMMA BytesSame ==
    ASSUME NEW c, NEW d, NEW K,
           \A k \in K : c.objects[k].bytes = d.objects[k].bytes
    PROVE  Bytes(c, K) = Bytes(d, K)
<1>1. Slots(c.objects, K) = Slots(d.objects, K)
  BY DEF Slots
<1> QED
  BY <1>1 DEF Bytes

-----------------------------------------------------------------------------
(* What the type of a cache gives *)

LEMMA CacheParts ==
    ASSUME NEW c \in Cache
    PROVE  /\ DOMAIN c.objects \subseteq KvId
           /\ \A k \in DOMAIN c.objects : c.objects[k] \in KvObject
           /\ c.objects = [k \in DOMAIN c.objects |-> c.objects[k]]
           /\ DOMAIN c.by_session_prefix \subseteq Key
           /\ \A key \in DOMAIN c.by_session_prefix :
                 c.by_session_prefix[key] \in KvId
           /\ c.capacities \in [Cell -> Nat]
           /\ c.usage \in [Cell -> Nat]
           /\ c.next_kv_id \in Nat
  BY CacheAssumption DEF Cache

LEMMA TierFinite ==
    ASSUME NEW c \in Cache, NEW K \in SUBSET DOMAIN c.objects
    PROVE  IsFiniteSet(K) /\ Sized(c.objects, K)
<1>1. IsFiniteSet(KvId)
  BY CacheAssumption, FS_Interval DEF KvId
<1>2. K \in SUBSET KvId
  BY CacheParts
<1>3. IsFiniteSet(K)
  BY <1>1, <1>2, FS_Subset
<1>4. Sized(c.objects, K)
  BY CacheParts, CacheAssumption DEF Sized, KvObject
<1> QED
  BY <1>3, <1>4

-----------------------------------------------------------------------------
(* Every method of the cache returns a cache *)

LEMMA SatSubType ==
    ASSUME NEW a \in Nat, NEW b \in Nat
    PROVE  SatSub(a, b) \in Nat /\ SatSub(a, b) <= a
  BY DEF SatSub

LEMMA ChargeType ==
    ASSUME NEW u \in [Cell -> Nat], NEW loc \in Location, NEW n \in Nat
    PROVE  Charge(u, loc, n) \in [Cell -> Nat] /\ Free(u, loc, n) \in [Cell -> Nat]
<1>1. CASE loc = Missing
  BY <1>1 DEF Charge, Free
<1>2. CASE loc \in Cell
  <2>1. Charge(u, loc, n) = [u EXCEPT ![loc] = u[loc] + n]
    BY <1>2, CacheAssumption DEF Charge
  <2>2. Free(u, loc, n) = [u EXCEPT ![loc] = SatSub(u[loc], n)]
    BY <1>2, CacheAssumption DEF Free
  <2>3. u[loc] \in Nat
    BY <1>2
  <2>4. u[loc] + n \in Nat /\ SatSub(u[loc], n) \in Nat
    BY <2>3 DEF SatSub
  <2> QED
    BY <1>2, <2>1, <2>2, <2>4
<1> QED
  BY <1>1, <1>2 DEF Location

LEMMA CacheIntro ==
    ASSUME NEW objects, NEW index, NEW cap, NEW u, NEW n,
           DOMAIN objects \in SUBSET KvId,
           objects \in [DOMAIN objects -> KvObject],
           DOMAIN index \in SUBSET Key,
           index \in [DOMAIN index -> KvId],
           cap \in [Cell -> Nat], u \in [Cell -> Nat], n \in 0 .. MaxKvId
    PROVE  [objects |-> objects, by_session_prefix |-> index,
            capacities |-> cap, usage |-> u, next_kv_id |-> n] \in Cache
<1>1. objects \in UNION {[K -> KvObject] : K \in SUBSET KvId}
  OBVIOUS
<1>2. index \in UNION {[K -> KvId] : K \in SUBSET Key}
  OBVIOUS
<1> QED
  BY <1>1, <1>2 DEF Cache

LEMMA RemovedType ==
    ASSUME NEW c \in Cache, NEW K \in SUBSET DOMAIN c.objects
    PROVE  Removed(c, K) \in Cache
<1> DEFINE d == Removed(c, K)
<1>1. d = [objects |-> d.objects, by_session_prefix |-> d.by_session_prefix,
           capacities |-> c.capacities, usage |-> d.usage,
           next_kv_id |-> c.next_kv_id]
  BY DEF Removed, With
<1>2. /\ DOMAIN d.objects = DOMAIN c.objects \ K
      /\ d.objects \in [DOMAIN d.objects -> KvObject]
  BY CacheParts DEF Removed, With, Restrict
<1>3. /\ DOMAIN d.by_session_prefix \in SUBSET Key
      /\ d.by_session_prefix \in [DOMAIN d.by_session_prefix -> KvId]
  BY CacheParts DEF Removed, With, Restrict
<1>4. d.usage \in [Cell -> Nat]
  <2>1. ASSUME NEW cell \in Cell
        PROVE  Bytes(c, K \cap ObjectsInTier(c, cell)) \in Nat
    <3>1. K \cap ObjectsInTier(c, cell) \in SUBSET DOMAIN c.objects
      OBVIOUS
    <3> QED
      BY <3>1, TierFinite, SlotsFinite, FS_CardinalityType DEF Bytes
  <2>2. d.usage = [cell \in Cell |-> SatSub(c.usage[cell],
                     Bytes(c, K \cap ObjectsInTier(c, cell)))]
    BY DEF Removed, With
  <2>3. c.usage \in [Cell -> Nat]
    BY CacheParts
  <2> QED
    BY <2>1, <2>2, <2>3, SatSubType
<1>5. c.capacities \in [Cell -> Nat] /\ c.next_kv_id \in 0 .. MaxKvId
  BY DEF Cache
<1>6. DOMAIN d.objects \in SUBSET KvId
  BY <1>2, CacheParts
<1>7. d \in Cache
  <2> HIDE DEF d
  <2>1. [objects |-> d.objects, by_session_prefix |-> d.by_session_prefix,
         capacities |-> c.capacities, usage |-> d.usage,
         next_kv_id |-> c.next_kv_id] \in Cache
    BY <1>2, <1>3, <1>4, <1>5, <1>6, CacheIntro
  <2> QED
    BY <1>1, <2>1, Zenon
<1> QED
  BY <1>7

LEMMA InsertedType ==
    ASSUME NEW c \in Cache, NEW k \in KvId, NEW o \in KvObject
    PROVE  Inserted(c, k, o) \in Cache
<1> DEFINE d == Inserted(c, k, o)
<1>0. KeyOf(o) \in Key /\ o.bytes \in Nat /\ o.location \in Location
  BY CacheAssumption DEF KeyOf, Key, KvObject
<1>1. d = [objects |-> d.objects, by_session_prefix |-> d.by_session_prefix,
           capacities |-> c.capacities, usage |-> d.usage,
           next_kv_id |-> c.next_kv_id]
  BY DEF Inserted, With
<1>2. /\ DOMAIN d.objects = DOMAIN c.objects \cup {k}
      /\ d.objects \in [DOMAIN d.objects -> KvObject]
  BY CacheParts DEF Inserted, With
<1>3. /\ DOMAIN d.by_session_prefix \in SUBSET Key
      /\ d.by_session_prefix \in [DOMAIN d.by_session_prefix -> KvId]
  BY <1>0, CacheParts DEF Inserted, With
<1>4. d.usage \in [Cell -> Nat]
  BY <1>0, CacheParts, ChargeType DEF Inserted, With
<1>5. c.capacities \in [Cell -> Nat] /\ c.next_kv_id \in 0 .. MaxKvId
  BY DEF Cache
<1>6. DOMAIN d.objects \in SUBSET KvId
  BY <1>2, CacheParts
<1>7. d \in Cache
  <2> HIDE DEF d
  <2>1. [objects |-> d.objects, by_session_prefix |-> d.by_session_prefix,
         capacities |-> c.capacities, usage |-> d.usage,
         next_kv_id |-> c.next_kv_id] \in Cache
    BY <1>2, <1>3, <1>4, <1>5, <1>6, CacheIntro
  <2> QED
    BY <1>1, <2>1, Zenon
<1> QED
  BY <1>7

LEMMA MovedType ==
    ASSUME NEW c \in Cache, NEW k \in DOMAIN c.objects,
           NEW o \in KvObject, NEW u \in [Cell -> Nat]
    PROVE  /\ With(c, [c.objects EXCEPT ![k] = o], c.by_session_prefix, u)
                \in Cache
           /\ With(c, c.objects, c.by_session_prefix, u) \in Cache
<1> DEFINE f == [c.objects EXCEPT ![k] = o]
<1>1. /\ c.objects \in [DOMAIN c.objects -> KvObject]
      /\ DOMAIN c.objects \in SUBSET KvId
      /\ c.by_session_prefix \in [DOMAIN c.by_session_prefix -> KvId]
      /\ DOMAIN c.by_session_prefix \in SUBSET Key
      /\ c.capacities \in [Cell -> Nat] /\ c.next_kv_id \in 0 .. MaxKvId
  BY DEF Cache
<1>2. /\ f \in [DOMAIN f -> KvObject]
      /\ DOMAIN f \in SUBSET KvId
  BY <1>1
<1> HIDE DEF f
<1> QED
  BY <1>1, <1>2, CacheIntro DEF With, f

LEMMA TouchedType ==
    ASSUME NEW c \in Cache, NEW k \in DOMAIN c.objects, NEW now_ns \in Time
    PROVE  Touched(c, k, now_ns) \in Cache
<1>1. c.objects[k] \in KvObject /\ c.usage \in [Cell -> Nat]
  BY CacheParts
<1>2. [c.objects[k] EXCEPT !.last_access_ns = now_ns] \in KvObject
  BY <1>1 DEF KvObject
<1> QED
  BY <1>1, <1>2, MovedType DEF Touched

LEMMA RelocatedType ==
    ASSUME NEW c \in Cache, NEW k \in DOMAIN c.objects,
           NEW loc \in Location, NEW now_ns \in Time
    PROVE  Relocated(c, k, loc, now_ns) \in Cache
<1> DEFINE o == c.objects[k]
           u == Free(c.usage, o.location, o.bytes)
           moved == [o EXCEPT !.location = loc, !.last_access_ns = now_ns]
<1>1. o \in KvObject /\ c.usage \in [Cell -> Nat]
  BY CacheParts
<1>2. /\ o.bytes \in Nat
      /\ o.location \in Location
      /\ moved \in KvObject
  BY <1>1, CacheAssumption DEF KvObject
<1>3. u \in [Cell -> Nat]
  BY <1>1, <1>2, ChargeType
<1>4. /\ Charge(u, loc, o.bytes) \in [Cell -> Nat]
      /\ Charge(u, o.location, o.bytes) \in [Cell -> Nat]
  BY <1>2, <1>3, ChargeType
<1>5. \/ Relocated(c, k, loc, now_ns)
           = With(c, [c.objects EXCEPT ![k] = moved], c.by_session_prefix,
                  Charge(u, loc, o.bytes))
      \/ Relocated(c, k, loc, now_ns)
           = With(c, c.objects, c.by_session_prefix,
                  Charge(u, o.location, o.bytes))
  BY DEF Relocated, With
<1> QED
  BY <1>2, <1>4, <1>5, MovedType

-----------------------------------------------------------------------------
(* Every method keeps the usage counters exact *)

Exact(c) ==
    \A cell \in Cell : c.usage[cell] = Bytes(c, ObjectsInTier(c, cell))

\* The bytes of a tier, with and without the object k.
LEMMA BytesApart ==
    ASSUME NEW c \in Cache, NEW k, NEW cell
    PROVE  /\ Bytes(c, ObjectsInTier(c, cell)) \in Nat
           /\ Bytes(c, ObjectsInTier(c, cell) \ {k}) \in Nat
           /\ Bytes(c, ObjectsInTier(c, cell)) =
                Bytes(c, ObjectsInTier(c, cell) \ {k})
                  + (IF k \in ObjectsInTier(c, cell) THEN c.objects[k].bytes
                                                     ELSE 0)
<1> DEFINE In == ObjectsInTier(c, cell)
<1>1. In \ {k} \in SUBSET DOMAIN c.objects /\ In \in SUBSET DOMAIN c.objects
  BY DEF ObjectsInTier
<1>2. IsFiniteSet(In \ {k}) /\ Sized(c.objects, In \ {k})
  BY <1>1, TierFinite
<1>3. CASE k \in In
  <2>1. {k} \in SUBSET DOMAIN c.objects
    BY <1>1, <1>3
  <2>2. IsFiniteSet({k}) /\ Sized(c.objects, {k})
    BY <2>1, TierFinite
  <2>3. (In \ {k}) \cap {k} = {} /\ (In \ {k}) \cup {k} = In
    BY <1>3
  <2>4. c.objects[k].bytes \in Nat
    BY <2>2 DEF Sized
  <2>5. /\ Bytes(c, In \ {k}) \in Nat
        /\ Bytes(c, (In \ {k}) \cup {k}) = Bytes(c, In \ {k}) + Bytes(c, {k})
    BY <1>2, <2>2, <2>3, BytesAdd
  <2>6. Bytes(c, {k}) = c.objects[k].bytes
    BY <2>4, BytesOfOne
  <2>7. Bytes(c, (In \ {k}) \cup {k}) = Bytes(c, In)
    BY <2>3, Zenon
  <2> HIDE DEF In
  <2>8. Bytes(c, In) = Bytes(c, In \ {k}) + c.objects[k].bytes
    BY <2>5, <2>6, <2>7
  <2> QED
    BY <1>3, <2>4, <2>5, <2>8 DEF In
<1>4. CASE k \notin In
  <2>1. In \ {k} = In
    BY <1>4
  <2>2. Bytes(c, In \ {k}) \in Nat
    BY <1>2, SlotsFinite, FS_CardinalityType DEF Bytes
  <2>3. Bytes(c, In \ {k}) = Bytes(c, In)
    BY <2>1, Zenon
  <2> QED
    BY <1>4, <2>2, <2>3
<1> QED
  BY <1>3, <1>4

\* A step that touches the one object k keeps the counters exact when it
\* moves k's old bytes out and its new bytes in.
LEMMA ExactStep ==
    ASSUME NEW c \in Cache, NEW d \in Cache, NEW k, Exact(c),
           \A cell \in Cell :
              ObjectsInTier(c, cell) \ {k} = ObjectsInTier(d, cell) \ {k},
           \A j \in DOMAIN c.objects \ {k} :
              d.objects[j].bytes = c.objects[j].bytes,
           \A cell \in Cell :
              d.usage[cell] =
                 c.usage[cell]
                   - (IF k \in ObjectsInTier(c, cell) THEN c.objects[k].bytes
                                                      ELSE 0)
                   + (IF k \in ObjectsInTier(d, cell) THEN d.objects[k].bytes
                                                      ELSE 0)
    PROVE  Exact(d)
<1> SUFFICES ASSUME NEW cell \in Cell
             PROVE  d.usage[cell] = Bytes(d, ObjectsInTier(d, cell))
  BY DEF Exact
<1> DEFINE x == IF k \in ObjectsInTier(c, cell) THEN c.objects[k].bytes ELSE 0
           y == IF k \in ObjectsInTier(d, cell) THEN d.objects[k].bytes ELSE 0
           rest == ObjectsInTier(c, cell) \ {k}
<1>1. Bytes(c, rest) = Bytes(d, rest)
  <2>1. \A j \in rest : c.objects[j].bytes = d.objects[j].bytes
    BY DEF ObjectsInTier
  <2> HIDE DEF rest
  <2> QED
    BY <2>1, BytesSame
<1>2. Bytes(c, rest) \in Nat /\ Bytes(c, ObjectsInTier(c, cell)) = Bytes(c, rest) + x
  BY BytesApart
<1>3. x \in Nat /\ y \in Nat
  BY CacheParts, CacheAssumption DEF ObjectsInTier, KvObject
<1>4. rest = ObjectsInTier(d, cell) \ {k}
  OBVIOUS
<1>5. Bytes(d, ObjectsInTier(d, cell)) = Bytes(d, rest) + y
  <2>1. Bytes(d, ObjectsInTier(d, cell))
          = Bytes(d, ObjectsInTier(d, cell) \ {k}) + y
    BY BytesApart
  <2> HIDE DEF rest, y
  <2> QED
    BY <1>4, <2>1
<1>6. c.usage[cell] = Bytes(c, ObjectsInTier(c, cell))
  BY DEF Exact
<1>7. d.usage[cell] = c.usage[cell] - x + y
  OBVIOUS
<1> HIDE DEF x, y, rest
<1> QED
  BY <1>1, <1>2, <1>3, <1>5, <1>6, <1>7

LEMMA RemovedExact ==
    ASSUME NEW c \in Cache, NEW K \in SUBSET DOMAIN c.objects, Exact(c)
    PROVE  Exact(Removed(c, K))
<1> DEFINE d == Removed(c, K)
<1> SUFFICES ASSUME NEW cell \in Cell
             PROVE  d.usage[cell] = Bytes(d, ObjectsInTier(d, cell))
  BY DEF Exact
<1> DEFINE out == K \cap ObjectsInTier(c, cell)
           rest == ObjectsInTier(d, cell)
<1>1. /\ DOMAIN d.objects = DOMAIN c.objects \ K
      /\ \A j \in DOMAIN d.objects : d.objects[j] = c.objects[j]
  BY DEF Removed, With, Restrict
<1>2. rest \cup out = ObjectsInTier(c, cell) /\ rest \cap out = {}
  BY <1>1 DEF ObjectsInTier
<1>3. rest \in SUBSET DOMAIN c.objects /\ out \in SUBSET DOMAIN c.objects
  BY <1>1 DEF ObjectsInTier
<1>4. \A j \in rest : c.objects[j].bytes = d.objects[j].bytes
  BY <1>1 DEF ObjectsInTier
<1>5. d.usage[cell] = SatSub(c.usage[cell], Bytes(c, out))
  BY DEF Removed, With
<1> HIDE DEF d, out, rest
<1>6. /\ Bytes(c, rest) \in Nat /\ Bytes(c, out) \in Nat
      /\ Bytes(c, rest \cup out) = Bytes(c, rest) + Bytes(c, out)
  BY <1>2, <1>3, TierFinite, BytesAdd
<1>7. Bytes(c, rest) = Bytes(d, rest)
  BY <1>4, BytesSame
<1>8. c.usage[cell] = Bytes(c, rest \cup out)
  BY <1>2 DEF Exact
<1>9. d.usage[cell] = Bytes(d, rest)
  BY <1>5, <1>6, <1>7, <1>8 DEF SatSub
<1> QED
  BY <1>9 DEF rest, d

LEMMA InsertedExact ==
    ASSUME NEW c \in Cache, NEW k \in KvId, NEW o \in KvObject,
           k \notin DOMAIN c.objects, Exact(c)
    PROVE  Exact(Inserted(c, k, o))
<1> DEFINE d == Inserted(c, k, o)
<1>1. d \in Cache
  BY InsertedType
<1>2. /\ DOMAIN d.objects = DOMAIN c.objects \cup {k}
      /\ d.objects[k] = o
      /\ \A j \in DOMAIN c.objects : d.objects[j] = c.objects[j]
      /\ d.usage = Charge(c.usage, o.location, o.bytes)
  BY DEF Inserted, With
<1>3. /\ o.location \in Location /\ o.bytes \in Nat
      /\ c.usage \in [Cell -> Nat]
  BY CacheParts, CacheAssumption DEF KvObject
<1> HIDE DEF d
<1>4. ASSUME NEW cell \in Cell
      PROVE  /\ k \notin ObjectsInTier(c, cell)
             /\ k \in ObjectsInTier(d, cell) <=> o.location = cell
             /\ ObjectsInTier(c, cell) \ {k} = ObjectsInTier(d, cell) \ {k}
  BY <1>2 DEF ObjectsInTier
<1>5. ASSUME NEW cell \in Cell
      PROVE  d.usage[cell] = c.usage[cell] + (IF o.location = cell THEN o.bytes ELSE 0)
  BY <1>2, <1>3, CacheAssumption DEF Charge, Location
<1>6. ASSUME NEW cell \in Cell
      PROVE  d.usage[cell] =
                 c.usage[cell]
                   - (IF k \in ObjectsInTier(c, cell) THEN c.objects[k].bytes
                                                      ELSE 0)
                   + (IF k \in ObjectsInTier(d, cell) THEN d.objects[k].bytes
                                                      ELSE 0)
  <2>1. c.usage[cell] \in Nat
    BY <1>3
  <2> QED
    BY <1>2, <1>3, <1>4, <1>5, <2>1
<1>7. Exact(d)
  BY <1>1, <1>2, <1>4, <1>6, ExactStep
<1> QED
  BY <1>7 DEF d

LEMMA TouchedExact ==
    ASSUME NEW c \in Cache, NEW k \in DOMAIN c.objects, NEW now_ns \in Time,
           Exact(c)
    PROVE  Exact(Touched(c, k, now_ns))
<1> DEFINE d == Touched(c, k, now_ns)
<1>1. d \in Cache
  BY TouchedType
<1>2. /\ DOMAIN d.objects = DOMAIN c.objects
      /\ d.usage = c.usage
      /\ d.objects[k].location = c.objects[k].location
      /\ d.objects[k].bytes = c.objects[k].bytes
      /\ \A j \in DOMAIN c.objects \ {k} : d.objects[j] = c.objects[j]
  <2>1. c.objects[k] \in KvObject
    BY CacheParts
  <2> QED
    BY <2>1 DEF Touched, With, KvObject
<1> HIDE DEF d
<1>3. \A cell \in Cell : c.usage[cell] \in Nat
  BY CacheParts
<1>4. c.objects[k].bytes \in Nat
  BY CacheParts, CacheAssumption DEF KvObject
<1>5. \A cell \in Cell : ObjectsInTier(c, cell) = ObjectsInTier(d, cell)
  BY <1>2 DEF ObjectsInTier
<1>6. Exact(d)
  BY <1>1, <1>2, <1>3, <1>4, <1>5, ExactStep
<1> QED
  BY <1>6 DEF d

\* Freeing an object's bytes never saturates.
LEMMA FreeExact ==
    ASSUME NEW c \in Cache, NEW k \in DOMAIN c.objects, Exact(c),
           NEW cell \in Cell
    PROVE  /\ Free(c.usage, c.objects[k].location, c.objects[k].bytes)[cell]
                \in Nat
           /\ Free(c.usage, c.objects[k].location, c.objects[k].bytes)[cell] =
                c.usage[cell]
                  - (IF c.objects[k].location = cell THEN c.objects[k].bytes
                                                     ELSE 0)
<1> DEFINE loc == c.objects[k].location
           n == c.objects[k].bytes
           u == c.usage
<1>1. n \in Nat /\ loc \in Location /\ u \in [Cell -> Nat]
  BY CacheParts, CacheAssumption DEF KvObject
<1>2. loc = cell => u[cell] >= n
  <2>1. SUFFICES ASSUME loc = cell PROVE u[cell] >= n
    OBVIOUS
  <2>2. k \in ObjectsInTier(c, cell)
    BY <2>1 DEF ObjectsInTier
  <2>3. /\ Bytes(c, ObjectsInTier(c, cell) \ {k}) \in Nat
        /\ Bytes(c, ObjectsInTier(c, cell))
             = Bytes(c, ObjectsInTier(c, cell) \ {k}) + n
    BY <2>2, BytesApart
  <2>4. u[cell] = Bytes(c, ObjectsInTier(c, cell))
    BY DEF Exact
  <2> QED
    BY <1>1, <2>3, <2>4
<1> HIDE DEF loc, n, u
<1>3. u[cell] \in Nat
  BY <1>1
<1>4. CASE loc = cell
  <2>1. Free(u, loc, n)[cell] = SatSub(u[cell], n)
    BY <1>1, <1>4, CacheAssumption DEF Free
  <2>2. SatSub(u[cell], n) = u[cell] - n /\ u[cell] - n \in Nat
    BY <1>1, <1>2, <1>3, <1>4 DEF SatSub
  <2> QED
    BY <1>4, <2>1, <2>2 DEF loc, n, u
<1>5. CASE loc # cell
  <2>1. Free(u, loc, n)[cell] = u[cell]
    BY <1>1, <1>5, CacheAssumption DEF Free
  <2> QED
    BY <1>3, <1>5, <2>1 DEF loc, n, u
<1> QED
  BY <1>4, <1>5

\* Freeing an object's bytes and taking them back changes nothing.
LEMMA RollbackCharge ==
    ASSUME NEW c \in Cache, NEW k \in DOMAIN c.objects, Exact(c)
    PROVE  Charge(Free(c.usage, c.objects[k].location, c.objects[k].bytes),
                  c.objects[k].location, c.objects[k].bytes) = c.usage
<1> DEFINE o == c.objects[k]
           u == Free(c.usage, o.location, o.bytes)
<1>1. /\ o.bytes \in Nat /\ o.location \in Location
      /\ c.usage \in [Cell -> Nat]
  BY CacheParts, CacheAssumption DEF KvObject
<1>2. u \in [Cell -> Nat]
  BY <1>1, ChargeType
<1>3. \A cell \in Cell :
         u[cell] = c.usage[cell] - (IF o.location = cell THEN o.bytes ELSE 0)
  BY FreeExact
<1>4. Charge(u, o.location, o.bytes) = c.usage
  <2> HIDE DEF o, u
  <2>1. Charge(u, o.location, o.bytes) \in [Cell -> Nat]
    BY <1>1, <1>2, ChargeType
  <2>2. ASSUME NEW cell \in Cell
        PROVE  Charge(u, o.location, o.bytes)[cell] = c.usage[cell]
    <3>1. Charge(u, o.location, o.bytes)[cell]
            = u[cell] + (IF o.location = cell THEN o.bytes ELSE 0)
      BY <1>1, <1>2, CacheAssumption DEF Charge, Location
    <3>2. u[cell] \in Nat /\ c.usage[cell] \in Nat
      BY <1>1, <1>2
    <3> QED
      BY <1>1, <1>3, <3>1, <3>2
  <2> QED
    BY <1>1, <2>1, <2>2
<1> QED
  BY <1>4

LEMMA RelocatedExact ==
    ASSUME NEW c \in Cache, NEW k \in DOMAIN c.objects,
           NEW loc \in Location, NEW now_ns \in Time, Exact(c)
    PROVE  /\ Exact(Relocated(c, k, loc, now_ns))
           /\ \A cell \in Cell :
                \/ Relocated(c, k, loc, now_ns).usage[cell] <= c.usage[cell]
                \/ /\ loc = cell
                   /\ Relocated(c, k, loc, now_ns).usage[cell]
                        <= c.capacities[cell]
<1> DEFINE d == Relocated(c, k, loc, now_ns)
           o == c.objects[k]
           u == Free(c.usage, o.location, o.bytes)
           freed == With(c, c.objects, c.by_session_prefix, u)
           moved == [o EXCEPT !.location = loc, !.last_access_ns = now_ns]
<1>1. d \in Cache
  BY RelocatedType
<1>2. /\ o \in KvObject /\ o.bytes \in Nat /\ o.location \in Location
      /\ c.usage \in [Cell -> Nat]
      /\ c.capacities \in [Cell -> Nat]
  BY CacheParts, CacheAssumption DEF KvObject
<1>3. u \in [Cell -> Nat]
  BY <1>2, ChargeType
<1>4. \A cell \in Cell :
         u[cell] = c.usage[cell] - (IF o.location = cell THEN o.bytes ELSE 0)
  BY FreeExact
<1>5. CASE Fits(freed, loc, o.bytes)
  <2>1. d = With(c, [c.objects EXCEPT ![k] = moved], c.by_session_prefix,
                 Charge(u, loc, o.bytes))
    BY <1>5 DEF Relocated, With
  <2>2. moved.location = loc /\ moved.bytes = o.bytes
    BY <1>2 DEF KvObject
  <2>3. /\ DOMAIN d.objects = DOMAIN c.objects
        /\ d.objects[k].location = loc /\ d.objects[k].bytes = o.bytes
        /\ \A j \in DOMAIN c.objects \ {k} : d.objects[j] = c.objects[j]
        /\ d.usage = Charge(u, loc, o.bytes)
    BY <2>1, <2>2 DEF With
  <2>4. loc \in Cell => SatSub(c.capacities[loc], u[loc]) >= o.bytes
    BY <1>5, CacheAssumption DEF Fits, AvailableSpace, With
  <2> HIDE DEF d, o, u, freed, moved
  <2>5. ASSUME NEW cell \in Cell
        PROVE  d.usage[cell] = u[cell] + (IF loc = cell THEN o.bytes ELSE 0)
    BY <1>2, <1>3, <2>3, CacheAssumption DEF Charge, Location
  <2>6. ASSUME NEW cell \in Cell
        PROVE  /\ k \in ObjectsInTier(d, cell) <=> loc = cell
               /\ k \in ObjectsInTier(c, cell) <=> o.location = cell
               /\ ObjectsInTier(c, cell) \ {k} = ObjectsInTier(d, cell) \ {k}
    BY <2>3 DEF ObjectsInTier, o
  <2>7. ASSUME NEW cell \in Cell
        PROVE  d.usage[cell] =
                 c.usage[cell]
                   - (IF k \in ObjectsInTier(c, cell) THEN c.objects[k].bytes
                                                      ELSE 0)
                   + (IF k \in ObjectsInTier(d, cell) THEN d.objects[k].bytes
                                                      ELSE 0)
    <3>1. c.objects[k].bytes = o.bytes /\ d.objects[k].bytes = o.bytes
      BY <2>3 DEF o
    <3>2. u[cell] = c.usage[cell] - (IF o.location = cell THEN o.bytes ELSE 0)
      BY <1>4
    <3> QED
      BY <3>1, <3>2, <2>5, <2>6
  <2>8. Exact(d)
    BY <1>1, <2>3, <2>6, <2>7, ExactStep
  <2>9. ASSUME NEW cell \in Cell
        PROVE  \/ d.usage[cell] <= c.usage[cell]
               \/ loc = cell /\ d.usage[cell] <= c.capacities[cell]
    <3>1. /\ u[cell] \in Nat /\ c.usage[cell] \in Nat
          /\ c.capacities[cell] \in Nat /\ u[cell] <= c.usage[cell]
      BY <1>2, <1>3, <1>4
    <3>2. CASE loc = cell
      BY <1>2, <2>4, <2>5, <3>1, <3>2 DEF SatSub
    <3>3. CASE loc # cell
      BY <2>5, <3>1, <3>3
    <3> QED
      BY <3>2, <3>3
  <2> QED
    BY <2>8, <2>9 DEF d
<1>6. CASE ~Fits(freed, loc, o.bytes)
  <2>1. d = With(c, c.objects, c.by_session_prefix,
                 Charge(u, o.location, o.bytes))
    BY <1>6 DEF Relocated, With
  <2>2. Charge(u, o.location, o.bytes) = c.usage
    BY RollbackCharge
  <2>3. d.objects = c.objects /\ d.usage = c.usage
    BY <2>1, <2>2 DEF With
  <2> HIDE DEF d
  <2>4. \A cell \in Cell : ObjectsInTier(d, cell) = ObjectsInTier(c, cell)
    BY <2>3 DEF ObjectsInTier
  <2>5. Exact(d)
    BY <2>3, <2>4 DEF Exact, Bytes
  <2> QED
    BY <1>2, <2>3, <2>5 DEF d
<1> QED
  BY <1>5, <1>6

\* What relocate leaves behind: the cache as it was, or the object in its new
\* place with the bytes of the old one freed.
LEMMA RelocatedOutcome ==
    ASSUME NEW c \in Cache, NEW k \in DOMAIN c.objects,
           NEW loc \in Location, NEW now_ns \in Time, Exact(c),
           \A cell \in Cell : c.usage[cell] <= c.capacities[cell]
    PROVE  LET o     == c.objects[k]
               after == Relocated(c, k, loc, now_ns)
           IN  \/ after = c /\ loc # o.location
               \/ /\ after.objects[k] =
                        [o EXCEPT !.location = loc, !.last_access_ns = now_ns]
                  /\ loc = Missing \/ after.usage[loc] <= after.capacities[loc]
                  /\ o.location \notin {loc, Missing} =>
                       after.usage[o.location] = c.usage[o.location] - o.bytes
<1> DEFINE d == Relocated(c, k, loc, now_ns)
           o == c.objects[k]
           u == Free(c.usage, o.location, o.bytes)
           freed == With(c, c.objects, c.by_session_prefix, u)
           moved == [o EXCEPT !.location = loc, !.last_access_ns = now_ns]
<1>1. /\ o \in KvObject /\ o.bytes \in Nat /\ o.location \in Location
      /\ c.usage \in [Cell -> Nat]
      /\ c.capacities \in [Cell -> Nat]
  BY CacheParts, CacheAssumption DEF KvObject
<1>2. u \in [Cell -> Nat]
  BY <1>1, ChargeType
<1>3. \A cell \in Cell :
         u[cell] = c.usage[cell] - (IF o.location = cell THEN o.bytes ELSE 0)
  BY FreeExact
<1>4. d.capacities = c.capacities
  BY DEF Relocated, With
<1>5. CASE Fits(freed, loc, o.bytes)
  <2>1. /\ d.objects = [c.objects EXCEPT ![k] = moved]
        /\ d.usage = Charge(u, loc, o.bytes)
    BY <1>5 DEF Relocated, With
  <2>2. d.objects[k] = moved
    BY <2>1
  <2>3. loc \in Cell => d.usage[loc] <= d.capacities[loc]
    <3> SUFFICES ASSUME loc \in Cell PROVE d.usage[loc] <= d.capacities[loc]
      OBVIOUS
    <3>1. SatSub(c.capacities[loc], u[loc]) >= o.bytes
      BY <1>5, CacheAssumption DEF Fits, AvailableSpace, With
    <3> HIDE DEF d, o, u, freed, moved
    <3>2. d.usage[loc] = u[loc] + o.bytes
      BY <1>2, <2>1, CacheAssumption DEF Charge
    <3>3. /\ u[loc] \in Nat /\ c.usage[loc] \in Nat /\ c.capacities[loc] \in Nat
          /\ u[loc] <= c.usage[loc] /\ c.usage[loc] <= c.capacities[loc]
      BY <1>1, <1>2, <1>3
    <3> QED
      BY <1>1, <1>4, <3>1, <3>2, <3>3 DEF SatSub
  <2>4. ASSUME o.location \notin {loc, Missing}
        PROVE  d.usage[o.location] = c.usage[o.location] - o.bytes
    <3>1. o.location \in Cell
      BY <1>1, <2>4 DEF Location
    <3> HIDE DEF d, o, u, freed, moved
    <3>2. d.usage[o.location] = u[o.location]
      BY <1>2, <2>1, <2>4, <3>1 DEF Charge
    <3> QED
      BY <1>3, <3>1, <3>2
  <2> HIDE DEF d, o, u, freed
  <2> QED
    BY <2>2, <2>3, <2>4, Zenon DEF d, o, Location
<1>6. CASE ~Fits(freed, loc, o.bytes)
  <2>1. d = With(c, c.objects, c.by_session_prefix,
                 Charge(u, o.location, o.bytes))
    BY <1>6 DEF Relocated, With
  <2>2. Charge(u, o.location, o.bytes) = c.usage
    BY RollbackCharge
  <2>3. d = c
    BY <2>1, <2>2 DEF With, Cache
  <2>4. loc # o.location
    <3> SUFFICES ASSUME loc = o.location PROVE FALSE
      OBVIOUS
    <3>1. /\ loc \in Cell
          /\ ~(SatSub(c.capacities[loc], u[loc]) >= o.bytes)
      BY <1>1, <1>6 DEF Fits, AvailableSpace, With, Location
    <3> HIDE DEF d, o, u, freed, moved
    <3>2. /\ u[loc] \in Nat /\ c.usage[loc] \in Nat /\ c.capacities[loc] \in Nat
          /\ u[loc] = c.usage[loc] - o.bytes /\ c.usage[loc] <= c.capacities[loc]
      BY <1>1, <1>2, <1>3, <3>1
    <3> QED
      BY <1>1, <3>1, <3>2 DEF SatSub
  <2> QED
    BY <2>3, <2>4
<1> QED
  BY <1>5, <1>6

-----------------------------------------------------------------------------
(* The inductive invariant, of any cache *)

IdsAllocated(c) == \A k \in DOMAIN c.objects : k < c.next_kv_id

Within(c) == \A cell \in Cell : c.usage[cell] <= c.capacities[cell]

Sound(c) ==
    \A key \in DOMAIN c.by_session_prefix :
        /\ c.by_session_prefix[key] \in DOMAIN c.objects
        /\ KeyOf(c.objects[c.by_session_prefix[key]]) = key

\* The capacities need the exact counters: set_capacity may choose any value
\* before the first object, when Exact says that every counter is 0.
Good(c) ==
    /\ c \in Cache
    /\ IdsAllocated(c)
    /\ Exact(c)
    /\ Within(c)
    /\ Sound(c)

LEMMA NewGood == Good(NewCache)
<1> DEFINE c == NewCache
<1>1. c \in Cache
  <2> DEFINE objects == [k \in {} |-> {}]
             index == [key \in {} |-> {}]
             zero == [cell \in Cell |-> 0]
  <2>1. DOMAIN objects \in SUBSET KvId /\ objects \in [DOMAIN objects -> KvObject]
    OBVIOUS
  <2>2. DOMAIN index \in SUBSET Key /\ index \in [DOMAIN index -> KvId]
    OBVIOUS
  <2>3. zero \in [Cell -> Nat] /\ 0 \in 0 .. MaxKvId
    BY CacheAssumption
  <2>4. c = [objects |-> objects, by_session_prefix |-> index,
             capacities |-> zero, usage |-> zero, next_kv_id |-> 0]
    BY DEF NewCache
  <2> HIDE DEF objects, index, zero, c
  <2>5. [objects |-> objects, by_session_prefix |-> index,
         capacities |-> zero, usage |-> zero, next_kv_id |-> 0] \in Cache
    BY <2>1, <2>2, <2>3, CacheIntro
  <2> QED
    BY <2>4, <2>5, Zenon
<1>2. DOMAIN c.objects = {} /\ DOMAIN c.by_session_prefix = {}
  BY DEF NewCache
<1>3. \A cell \in Cell : c.usage[cell] = 0 /\ c.capacities[cell] = 0
  BY DEF NewCache
<1> HIDE DEF c
<1>4. \A cell \in Cell : ObjectsInTier(c, cell) = {}
  BY <1>2 DEF ObjectsInTier
<1>5. \A cell \in Cell : Bytes(c, ObjectsInTier(c, cell)) = 0
  BY <1>4, BytesOfNone
<1>6. Good(c)
  BY <1>1, <1>2, <1>3, <1>5 DEF Good, IdsAllocated, Exact, Within, Sound
<1> QED
  BY <1>6 DEF c

LEMMA RemovedGood ==
    ASSUME NEW c, Good(c), NEW K \in SUBSET DOMAIN c.objects
    PROVE  Good(Removed(c, K))
<1> DEFINE d == Removed(c, K)
<1>1. c \in Cache /\ Exact(c) /\ IdsAllocated(c) /\ Within(c) /\ Sound(c)
  BY DEF Good
<1>2. d \in Cache /\ Exact(d)
  BY <1>1, RemovedType, RemovedExact
<1>3. /\ DOMAIN d.objects = DOMAIN c.objects \ K
      /\ \A j \in DOMAIN d.objects : d.objects[j] = c.objects[j]
      /\ DOMAIN d.by_session_prefix =
           DOMAIN c.by_session_prefix \ {KeyOf(c.objects[j]) : j \in K}
      /\ \A key \in DOMAIN d.by_session_prefix :
            d.by_session_prefix[key] = c.by_session_prefix[key]
      /\ d.next_kv_id = c.next_kv_id /\ d.capacities = c.capacities
  BY DEF Removed, With, Restrict
<1>4. ASSUME NEW cell \in Cell PROVE d.usage[cell] <= c.usage[cell]
  <2> DEFINE out == K \cap ObjectsInTier(c, cell)
  <2>1. out \in SUBSET DOMAIN c.objects
    OBVIOUS
  <2>2. Bytes(c, out) \in Nat
    BY <1>1, <2>1, TierFinite, SlotsFinite, FS_CardinalityType DEF Bytes
  <2>3. d.usage[cell] = SatSub(c.usage[cell], Bytes(c, out))
    BY DEF Removed, With
  <2>4. c.usage[cell] \in Nat
    BY <1>1, CacheParts
  <2> HIDE DEF d, out
  <2> QED
    BY <2>2, <2>3, <2>4 DEF SatSub
<1> HIDE DEF d
<1>5. IdsAllocated(d)
  BY <1>1, <1>3 DEF IdsAllocated
<1>6. Within(d)
  <2>1. \A cell \in Cell : /\ c.usage[cell] \in Nat /\ d.usage[cell] \in Nat
                           /\ c.capacities[cell] \in Nat
    BY <1>1, <1>2, CacheParts
  <2> QED
    BY <1>1, <1>3, <1>4, <2>1 DEF Within
<1>7. Sound(d)
  BY <1>1, <1>3 DEF Sound
<1>8. Good(d)
  BY <1>2, <1>5, <1>6, <1>7 DEF Good
<1> QED
  BY <1>8 DEF d

LEMMA InsertedGood ==
    ASSUME NEW c, Good(c), NEW k \in KvId, NEW o \in KvObject,
           k < c.next_kv_id, k \notin DOMAIN c.objects,
           Fits(c, o.location, o.bytes)
    PROVE  Good(Inserted(c, k, o))
<1> DEFINE d == Inserted(c, k, o)
<1>1. c \in Cache /\ Exact(c) /\ IdsAllocated(c) /\ Within(c) /\ Sound(c)
  BY DEF Good
<1>2. d \in Cache /\ Exact(d)
  BY <1>1, InsertedType, InsertedExact
<1>3. /\ DOMAIN d.objects = DOMAIN c.objects \cup {k}
      /\ d.objects[k] = o
      /\ \A j \in DOMAIN c.objects : d.objects[j] = c.objects[j]
      /\ DOMAIN d.by_session_prefix = DOMAIN c.by_session_prefix \cup {KeyOf(o)}
      /\ d.by_session_prefix[KeyOf(o)] = k
      /\ \A key \in DOMAIN c.by_session_prefix \ {KeyOf(o)} :
            d.by_session_prefix[key] = c.by_session_prefix[key]
      /\ d.usage = Charge(c.usage, o.location, o.bytes)
      /\ d.next_kv_id = c.next_kv_id /\ d.capacities = c.capacities
  BY DEF Inserted, With
<1> HIDE DEF d
<1>4. IdsAllocated(d)
  BY <1>1, <1>3 DEF IdsAllocated
<1>5. Within(d)
  <2> SUFFICES ASSUME NEW cell \in Cell
               PROVE  d.usage[cell] <= d.capacities[cell]
    BY DEF Within
  <2>1. /\ c.usage \in [Cell -> Nat] /\ c.capacities \in [Cell -> Nat]
        /\ o.bytes \in Nat /\ o.location \in Location
    BY <1>1, CacheParts, CacheAssumption DEF KvObject
  <2>2. c.usage[cell] \in Nat /\ c.capacities[cell] \in Nat
    BY <2>1
  <2>3. c.usage[cell] <= c.capacities[cell]
    BY <1>1 DEF Within
  <2>4. CASE o.location = cell
    <3>1. d.usage[cell] = c.usage[cell] + o.bytes
      BY <1>3, <2>1, <2>4, CacheAssumption DEF Charge
    <3>2. SatSub(c.capacities[cell], c.usage[cell]) >= o.bytes
      BY <2>4, CacheAssumption DEF Fits, AvailableSpace
    <3> QED
      BY <1>3, <2>1, <2>2, <2>3, <3>1, <3>2 DEF SatSub
  <2>5. CASE o.location # cell
    <3>1. d.usage[cell] = c.usage[cell]
      BY <1>3, <2>1, <2>5, CacheAssumption DEF Charge
    <3> QED
      BY <1>3, <2>3, <3>1
  <2> QED
    BY <2>4, <2>5
<1>6. Sound(d)
  BY <1>1, <1>3 DEF Sound
<1>7. Good(d)
  BY <1>2, <1>4, <1>5, <1>6 DEF Good
<1> QED
  BY <1>7 DEF d

\* A method that keeps the ids and keys of the objects, the index and the
\* capacities keeps what they say.
LEMMA SameKeys ==
    ASSUME NEW c, NEW d, IdsAllocated(c), Sound(c),
           DOMAIN d.objects = DOMAIN c.objects,
           \A j \in DOMAIN c.objects : KeyOf(d.objects[j]) = KeyOf(c.objects[j]),
           d.by_session_prefix = c.by_session_prefix,
           d.next_kv_id = c.next_kv_id
    PROVE  IdsAllocated(d) /\ Sound(d)
  BY DEF IdsAllocated, Sound

LEMMA TouchedGood ==
    ASSUME NEW c, Good(c), NEW k \in DOMAIN c.objects, NEW now_ns \in Time
    PROVE  Good(Touched(c, k, now_ns))
<1> DEFINE d == Touched(c, k, now_ns)
<1>1. c \in Cache /\ Exact(c) /\ IdsAllocated(c) /\ Within(c) /\ Sound(c)
  BY DEF Good
<1>2. d \in Cache /\ Exact(d)
  BY <1>1, TouchedType, TouchedExact
<1>3. /\ DOMAIN d.objects = DOMAIN c.objects
      /\ d.objects[k].session_id = c.objects[k].session_id
      /\ d.objects[k].prefix_tokens = c.objects[k].prefix_tokens
      /\ \A j \in DOMAIN c.objects \ {k} : d.objects[j] = c.objects[j]
      /\ d.by_session_prefix = c.by_session_prefix
      /\ d.usage = c.usage
      /\ d.next_kv_id = c.next_kv_id /\ d.capacities = c.capacities
  <2>1. c.objects[k] \in KvObject
    BY <1>1, CacheParts
  <2> QED
    BY <2>1 DEF Touched, With, KvObject
<1> HIDE DEF d
<1>4. \A j \in DOMAIN c.objects : KeyOf(d.objects[j]) = KeyOf(c.objects[j])
  BY <1>3 DEF KeyOf
<1>5. IdsAllocated(d) /\ Sound(d)
  BY <1>1, <1>3, <1>4, SameKeys
<1>6. Within(d)
  BY <1>1, <1>3 DEF Within
<1>7. Good(d)
  BY <1>2, <1>5, <1>6 DEF Good
<1> QED
  BY <1>7 DEF d

LEMMA RelocatedGood ==
    ASSUME NEW c, Good(c), NEW k \in DOMAIN c.objects,
           NEW loc \in Location, NEW now_ns \in Time
    PROVE  Good(Relocated(c, k, loc, now_ns))
<1> DEFINE d == Relocated(c, k, loc, now_ns)
           moved == [c.objects[k] EXCEPT !.location = loc,
                                         !.last_access_ns = now_ns]
<1>1. c \in Cache /\ Exact(c) /\ IdsAllocated(c) /\ Within(c) /\ Sound(c)
  BY DEF Good
<1>2. d \in Cache /\ Exact(d)
  BY <1>1, RelocatedType, RelocatedExact
<1>3. \A cell \in Cell :
         \/ d.usage[cell] <= c.usage[cell]
         \/ loc = cell /\ d.usage[cell] <= c.capacities[cell]
  BY <1>1, RelocatedExact
<1>4. /\ d.objects = c.objects \/ d.objects = [c.objects EXCEPT ![k] = moved]
      /\ d.by_session_prefix = c.by_session_prefix
      /\ d.next_kv_id = c.next_kv_id /\ d.capacities = c.capacities
  BY DEF Relocated, With
<1>5. KeyOf(moved) = KeyOf(c.objects[k])
  <2>1. c.objects[k] \in KvObject
    BY <1>1, CacheParts
  <2> QED
    BY <2>1 DEF KeyOf, KvObject
<1> HIDE DEF d, moved
<1>6. /\ DOMAIN d.objects = DOMAIN c.objects
      /\ \A j \in DOMAIN c.objects : KeyOf(d.objects[j]) = KeyOf(c.objects[j])
  BY <1>4, <1>5
<1>7. IdsAllocated(d) /\ Sound(d)
  BY <1>1, <1>4, <1>6, SameKeys
<1>8. Within(d)
  <2>1. \A cell \in Cell : /\ c.usage[cell] \in Nat /\ d.usage[cell] \in Nat
                           /\ c.capacities[cell] \in Nat
    BY <1>1, <1>2, CacheParts
  <2> QED
    BY <1>1, <1>3, <1>4, <2>1 DEF Within
<1>9. Good(d)
  BY <1>2, <1>7, <1>8 DEF Good
<1> QED
  BY <1>9 DEF d

-----------------------------------------------------------------------------
(* The theorems *)

IInv == Good(cache)

LEMMA GoodInit == Init => IInv
  BY NewGood DEF Init, IInv

LEMMA GoodNext == IInv /\ [Next]_cache => IInv'
<1> SUFFICES ASSUME Good(cache), [Next]_cache PROVE Good(cache')
  BY DEF IInv
<1>1. ASSUME NEW cell \in Cell, NEW bytes \in ByteSize,
             SetCapacity(cell, bytes)
      PROVE  Good(cache')
  <2> DEFINE c == cache
  <2>1. /\ c \in Cache /\ Exact(c) /\ IdsAllocated(c) /\ Within(c)
        /\ Sound(c) /\ bytes \in Nat
    BY CacheAssumption DEF Good
  <2>2. DOMAIN c.objects = {}
    <3>1. c.next_kv_id = 0 /\ DOMAIN c.objects \subseteq 0 .. (MaxKvId - 1)
      BY <1>1, <2>1, CacheParts DEF SetCapacity, KvId
    <3> QED
      BY <2>1, <3>1 DEF IdsAllocated
  <2>3. /\ cache'.objects = c.objects
        /\ cache'.by_session_prefix = c.by_session_prefix
        /\ cache'.usage = c.usage
        /\ cache'.next_kv_id = c.next_kv_id
        /\ cache'.capacities = [c.capacities EXCEPT ![cell] = bytes]
        /\ cache' \in Cache
    BY <1>1, <2>1 DEF SetCapacity, Cache
  <2>4. \A x \in Cell : /\ ObjectsInTier(c, x) = {}
                        /\ ObjectsInTier(cache', x) = {}
    BY <2>2, <2>3 DEF ObjectsInTier
  <2>5. \A x \in Cell : c.usage[x] = 0
    BY <2>1, <2>4, BytesOfNone DEF Exact
  <2>6. Exact(cache')
    BY <2>3, <2>4, <2>5, BytesOfNone DEF Exact
  <2>7. Within(cache')
    <3>1. cache'.capacities \in [Cell -> Nat]
      BY <2>3, CacheParts
    <3> QED
      BY <2>3, <2>5, <3>1 DEF Within
  <2>8. IdsAllocated(cache') /\ Sound(cache')
    BY <2>1, <2>3, SameKeys
  <2> QED
    BY <2>3, <2>6, <2>7, <2>8 DEF Good
<1>2. ASSUME AllocKvId PROVE Good(cache')
  <2> DEFINE c == cache
  <2>1. /\ c \in Cache /\ Exact(c) /\ IdsAllocated(c) /\ Within(c)
        /\ Sound(c)
    BY DEF Good
  <2>2. /\ cache'.objects = c.objects
        /\ cache'.by_session_prefix = c.by_session_prefix
        /\ cache'.usage = c.usage
        /\ cache'.next_kv_id = c.next_kv_id + 1
        /\ cache'.capacities = c.capacities
        /\ cache' \in Cache
    BY <1>2, <2>1, CacheAssumption DEF AllocKvId, Cache
  <2>3. Exact(cache')
    BY <2>1, <2>2 DEF Exact, Bytes, ObjectsInTier
  <2>4. Within(cache') /\ Sound(cache')
    BY <2>1, <2>2 DEF Within, Sound
  <2>5. IdsAllocated(cache')
    <3>1. DOMAIN c.objects \subseteq 0 .. (MaxKvId - 1) /\ c.next_kv_id \in Nat
      BY <2>1, CacheParts DEF KvId
    <3> QED
      BY <2>1, <2>2, <3>1, CacheAssumption DEF IdsAllocated
  <2> QED
    BY <2>2, <2>3, <2>4, <2>5 DEF Good
<1>3. ASSUME NEW k \in KvId, NEW o \in KvObject,
             Insert(k, o) \/ InsertOverflow(k, o)
      PROVE  Good(cache')
  BY <1>3, InsertedGood DEF Insert, InsertOverflow
<1>4. ASSUME NEW k \in KvId, Remove(k) PROVE Good(cache')
  <2>1. {k} \in SUBSET DOMAIN cache.objects /\ cache' = Removed(cache, {k})
    BY <1>4 DEF Remove
  <2> QED
    BY <2>1, RemovedGood
<1>5. ASSUME NEW k \in KvId, NEW now_ns \in Time, UpdateAccess(k, now_ns)
      PROVE  Good(cache')
  BY <1>5, TouchedGood DEF UpdateAccess
<1>6. ASSUME NEW k \in KvId, NEW loc \in Location, NEW now_ns \in Time,
             Relocate(k, loc, now_ns)
      PROVE  Good(cache')
  BY <1>6, RelocatedGood DEF Relocate
<1>7. CASE UNCHANGED cache
  BY <1>7
<1> QED
  BY <1>1, <1>2, <1>3, <1>4, <1>5, <1>6, <1>7 DEF Next

LEMMA GoodAlways == Spec => []IInv
  BY GoodInit, GoodNext, PTL DEF Spec

\* The struct is well formed in every reachable state.
THEOREM TypeCorrect == Spec => []TypeOK
<1>1. IInv => TypeOK
  BY DEF IInv, Good, TypeOK, IdsAllocated
<1> QED
  BY <1>1, GoodAlways, PTL

\* No history of the cache's methods leaks or double-counts a byte.
THEOREM UsageIsExact == Spec => []UsageExact
<1>1. IInv => UsageExact
  BY DEF IInv, Good, UsageExact, Exact
<1> QED
  BY <1>1, GoodAlways, PTL

\* No tier outgrows its capacity, whatever is inserted, moved or rolled back.
THEOREM CapacityRespected == Spec => []WithinCapacity
<1>1. IInv => WithinCapacity
  BY DEF IInv, Good, WithinCapacity, Within
<1> QED
  BY <1>1, GoodAlways, PTL

\* The index never dangles and never answers for another key.
THEOREM IndexIsSound == Spec => []IndexSound
<1>1. IInv => IndexSound
  BY DEF IInv, Good, IndexSound, Sound
<1> QED
  BY <1>1, GoodAlways, PTL

\* A relocation that does not fit is undone without a trace, and one that
\* fits moves the bytes with the object.
THEOREM RollbackIsExact == Spec => []RollbackRestores
<1>1. IInv => RollbackRestores
  <2> SUFFICES ASSUME Good(cache) PROVE RollbackRestores
    BY DEF IInv
  <2>1. cache \in Cache /\ Exact(cache) /\ Within(cache)
    BY DEF Good
  <2> QED
    BY <2>1, RelocatedOutcome, Zenon DEF RollbackRestores, Within
<1> QED
  BY <1>1, GoodAlways, PTL

=============================================================================
