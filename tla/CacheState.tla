----------------------------- MODULE CacheState -----------------------------
(***************************************************************************)
(* The KV cache's book-keeping, cache/state.rs: which KV objects exist,    *)
(* where each one lives, how many bytes every (node, tier) pair holds, and *)
(* the index that finds an object by its session and prefix length.        *)
(*                                                                         *)
(* The variable cache is the struct CacheState.  The operators that take   *)
(* a cache and return one are its methods, so that a placement policy can  *)
(* chain several of them in one step (module Placement).  A location is a  *)
(* (node, tier) pair, a member of Cell, or Missing: the GPU index inside a *)
(* node does not enter the accounting.  capacities and usage are total,    *)
(* 0 standing for an absent entry, which is how every reader of the two    *)
(* hash maps treats one.                                                   *)
(***************************************************************************)
EXTENDS Naturals, FiniteSets, Functions

CONSTANTS
    Session,    \* session ids
    Prefix,     \* prefix lengths, in tokens
    Cell,       \* (node, tier) pairs, the places whose bytes are counted
    Missing,    \* the location of an object that is nowhere
    ByteSize,   \* object sizes and capacities
    Time,       \* clock values a caller passes in
    MaxKvId     \* bound: how many kv ids a behaviour may allocate

ASSUME CacheAssumption ==
    /\ Missing \notin Cell
    /\ ByteSize \subseteq Nat
    /\ Time \subseteq Nat
    /\ MaxKvId \in Nat

VARIABLE cache

Location == Cell \cup {Missing}

Key == Session \X Prefix

KvObject == [session_id : Session, prefix_tokens : Prefix, bytes : ByteSize,
             location : Location, last_access_ns : Time]

KeyOf(o) == <<o.session_id, o.prefix_tokens>>

\* The ids a behaviour can allocate.
KvId == 0 .. (MaxKvId - 1)

Cache ==
    [objects           : UNION {[K -> KvObject] : K \in SUBSET KvId},
     by_session_prefix : UNION {[K -> KvId] : K \in SUBSET Key},
     capacities        : [Cell -> Nat],
     usage             : [Cell -> Nat],
     next_kv_id        : 0 .. MaxKvId]

-----------------------------------------------------------------------------
(* Reading the cache *)

SatSub(a, b) == IF a >= b THEN a - b ELSE 0

\* The ids that the index maps a key to: at most one.
Lookup(c, key) ==
    {k \in DOMAIN c.objects :
        key \in DOMAIN c.by_session_prefix /\ c.by_session_prefix[key] = k}

AvailableSpace(c, cell) == SatSub(c.capacities[cell], c.usage[cell])

ObjectsInTier(c, cell) == {k \in DOMAIN c.objects : c.objects[k].location = cell}

\* The bytes of the objects K, as a set of slots <<id, i>>: sizes add up by
\* counting slots.
Slots(objects, K) == UNION {{k} \X (1 .. objects[k].bytes) : k \in K}

Bytes(c, K) == Cardinality(Slots(c.objects, K))

\* Mutant of Fits: what is already there is forgotten.
FitsWhenEmpty(c, loc, bytes) == loc # Missing => c.capacities[loc] >= bytes

\* A location that is not counted has room for anything.
Fits(c, loc, bytes) == loc # Missing => AvailableSpace(c, loc) >= bytes

-----------------------------------------------------------------------------
(* Changing the cache *)

Charge(usage, loc, bytes) ==
    IF loc = Missing THEN usage ELSE [usage EXCEPT ![loc] = @ + bytes]

Free(usage, loc, bytes) ==
    IF loc = Missing THEN usage ELSE [usage EXCEPT ![loc] = SatSub(@, bytes)]

NewCache ==
    [objects           |-> [k \in {} |-> {}],
     by_session_prefix |-> [key \in {} |-> {}],
     capacities        |-> [cell \in Cell |-> 0],
     usage             |-> [cell \in Cell |-> 0],
     next_kv_id        |-> 0]

\* c with other contents; its capacities and its next id stay.
With(c, objects, by_session_prefix, usage) ==
    [objects           |-> objects,
     by_session_prefix |-> by_session_prefix,
     capacities        |-> c.capacities,
     usage             |-> usage,
     next_kv_id        |-> c.next_kv_id]

\* Mutant of Removed: the index keeps its entries.
RemovedKeepingIndex(c, K) ==
    With(c, Restrict(c.objects, DOMAIN c.objects \ K), c.by_session_prefix,
         [cell \in Cell |->
            SatSub(c.usage[cell], Bytes(c, K \cap ObjectsInTier(c, cell)))])

\* Mutant of Removed: the bytes are not given back.
RemovedKeepingUsage(c, K) ==
    With(c, Restrict(c.objects, DOMAIN c.objects \ K),
         Restrict(c.by_session_prefix,
                  DOMAIN c.by_session_prefix \ {KeyOf(c.objects[k]) : k \in K}),
         c.usage)

\* Remove the objects K one after the other.  Each removal drops the index
\* entry of the object's key, whichever object that entry names.
Removed(c, K) ==
    With(c,
         Restrict(c.objects, DOMAIN c.objects \ K),
         Restrict(c.by_session_prefix,
                  DOMAIN c.by_session_prefix \ {KeyOf(c.objects[k]) : k \in K}),
         [cell \in Cell |->
            SatSub(c.usage[cell], Bytes(c, K \cap ObjectsInTier(c, cell)))])

\* Mutant of Inserted: an entry that is there already stays.
InsertedKeepingIndex(c, k, o) ==
    With(c, [j \in DOMAIN c.objects \cup {k} |->
               IF j = k THEN o ELSE c.objects[j]],
         [key \in DOMAIN c.by_session_prefix \cup {KeyOf(o)} |->
            IF key \in DOMAIN c.by_session_prefix THEN c.by_session_prefix[key] ELSE k],
         Charge(c.usage, o.location, o.bytes))

\* Insert o under the id k, where it fits.  The index entry of o's key, if
\* there was one, now names k.
Inserted(c, k, o) ==
    With(c,
         [j \in DOMAIN c.objects \cup {k} |->
            IF j = k THEN o ELSE c.objects[j]],
         [key \in DOMAIN c.by_session_prefix \cup {KeyOf(o)} |->
            IF key = KeyOf(o) THEN k ELSE c.by_session_prefix[key]],
         Charge(c.usage, o.location, o.bytes))

\* Mutant of Touched: the access is not recorded.
TouchedNot(c, k, now_ns) == c

Touched(c, k, now_ns) ==
    With(c, [c.objects EXCEPT ![k] = [@ EXCEPT !.last_access_ns = now_ns]],
         c.by_session_prefix, c.usage)

\* Mutant of Relocated: the old place is not freed.
RelocatedKeepingUsage(c, k, loc, now_ns) ==
    LET o     == c.objects[k]
        moved == [o EXCEPT !.location = loc, !.last_access_ns = now_ns]
    IN  IF Fits(c, loc, o.bytes)
        THEN With(c, [c.objects EXCEPT ![k] = moved], c.by_session_prefix,
                  Charge(c.usage, loc, o.bytes))
        ELSE c

\* Mutant of Relocated: the old place is not taken back.
RelocatedWithoutRollback(c, k, loc, now_ns) ==
    LET o     == c.objects[k]
        freed == With(c, c.objects, c.by_session_prefix,
                      Free(c.usage, o.location, o.bytes))
        moved == [o EXCEPT !.location = loc, !.last_access_ns = now_ns]
    IN  IF Fits(freed, loc, o.bytes)
        THEN With(c, [c.objects EXCEPT ![k] = moved], c.by_session_prefix,
                  Charge(freed.usage, loc, o.bytes))
        ELSE freed

\* Move the object k: free its old place, and either take the new one or,
\* when that is too small, take the old one back.
Relocated(c, k, loc, now_ns) ==
    LET o     == c.objects[k]
        freed == With(c, c.objects, c.by_session_prefix,
                      Free(c.usage, o.location, o.bytes))
        moved == [o EXCEPT !.location = loc, !.last_access_ns = now_ns]
    IN  IF Fits(freed, loc, o.bytes)
        THEN With(c, [c.objects EXCEPT ![k] = moved], c.by_session_prefix,
                  Charge(freed.usage, loc, o.bytes))
        ELSE With(c, c.objects, c.by_session_prefix,
                  Charge(freed.usage, o.location, o.bytes))

-----------------------------------------------------------------------------
(* The operations *)

Init == cache = NewCache

\* "Used during cluster initialisation": before the first object.
SetCapacity(cell, bytes) ==
    /\ cache.next_kv_id = 0
    /\ cache' = [cache EXCEPT !.capacities[cell] = bytes]

AllocKvId ==
    /\ cache.next_kv_id < MaxKvId
    /\ cache' = [cache EXCEPT !.next_kv_id = @ + 1]

\* Mutant of Insert: any id will do.
InsertUnallocated(k, o) ==
    /\ k \notin DOMAIN cache.objects
    /\ Fits(cache, o.location, o.bytes)
    /\ cache' = Inserted(cache, k, o)

\* A caller inserts under an id it has allocated and that is not in use.
Insert(k, o) ==
    /\ k < cache.next_kv_id
    /\ k \notin DOMAIN cache.objects
    /\ Fits(cache, o.location, o.bytes)
    /\ cache' = Inserted(cache, k, o)

InsertOverflow(k, o) ==
    /\ k < cache.next_kv_id
    /\ k \notin DOMAIN cache.objects
    /\ ~Fits(cache, o.location, o.bytes)
    /\ UNCHANGED cache

Remove(k) ==
    /\ k \in DOMAIN cache.objects
    /\ cache' = Removed(cache, {k})

UpdateAccess(k, now_ns) ==
    /\ k \in DOMAIN cache.objects
    /\ cache' = Touched(cache, k, now_ns)

Relocate(k, loc, now_ns) ==
    /\ k \in DOMAIN cache.objects
    /\ cache' = Relocated(cache, k, loc, now_ns)

Next ==
    \/ \E cell \in Cell, bytes \in ByteSize : SetCapacity(cell, bytes)
    \/ AllocKvId
    \/ \E k \in KvId, o \in KvObject : Insert(k, o) \/ InsertOverflow(k, o)
    \/ \E k \in KvId : Remove(k)
    \/ \E k \in KvId, now_ns \in Time : UpdateAccess(k, now_ns)
    \/ \E k \in KvId, loc \in Location, now_ns \in Time :
          Relocate(k, loc, now_ns)

Spec == Init /\ [][Next]_cache

-----------------------------------------------------------------------------
(* What must hold *)

\* The struct is well formed, and every tracked object has an id that was
\* allocated (alloc_kv_id, insert).
TypeOK ==
    /\ cache \in Cache
    /\ \A k \in DOMAIN cache.objects : k < cache.next_kv_id

\* The usage counter of every (node, tier) is exactly the bytes of the
\* objects that live there: no sequence of inserts, failed inserts, removals,
\* moves and rolled-back moves leaks or double-counts a byte, and the
\* saturating subtractions of remove and relocate never saturate.
UsageExact ==
    \A cell \in Cell :
        cache.usage[cell] = Bytes(cache, ObjectsInTier(cache, cell))

\* The objects in a (node, tier) never outgrow its capacity: the checks of
\* insert and relocate leave no way around them.
WithinCapacity ==
    \A cell \in Cell : cache.usage[cell] <= cache.capacities[cell]

\* A lookup never answers with the KV of another session or prefix, and never
\* follows a dangling index entry: every entry names a tracked object that
\* has the entry's key.
IndexSound ==
    \A key \in DOMAIN cache.by_session_prefix :
        /\ cache.by_session_prefix[key] \in DOMAIN cache.objects
        /\ KeyOf(cache.objects[cache.by_session_prefix[key]]) = key

\* A move that does not fit leaves no trace: the rollback of relocate gives
\* back exactly the state before the call, in every reachable cache, for
\* every object and destination.  The destination may be the object's own
\* cell, whose bytes were freed before the check: that move always fits.
RollbackRestores ==
    \A k \in DOMAIN cache.objects, loc \in Location, now_ns \in Time :
        LET o    == cache.objects[k]
            after == Relocated(cache, k, loc, now_ns)
        IN  \/ after = cache /\ loc # o.location
            \/ /\ after.objects[k] =
                     [o EXCEPT !.location = loc, !.last_access_ns = now_ns]
               /\ loc = Missing \/ after.usage[loc] <= after.capacities[loc]
               /\ o.location \notin {loc, Missing} =>
                    after.usage[o.location] = cache.usage[o.location] - o.bytes

\* lookup's comment (state.rs:51) says it looks "up a KV object by session and
\* prefix length": a tracked object's key is found.  Not so once two objects
\* with one key have been inserted.
LookupFindsTracked ==
    \A k \in DOMAIN cache.objects :
        Lookup(cache, KeyOf(cache.objects[k])) # {}
=============================================================================
